---- MODULE Spec2Model ----
(***************************************************************************)
(* A model of the marksheet extraction pipeline:                           *)
(*   - LLMClient (app/services/llm_client.py): rate limiting, the quota    *)
(*     retry and the three backend variants;                               *)
(*   - MarksheetExtractor (app/services/extractor.py): response parsing,   *)
(*     structuring, the stage sequence of extract_data and the batch loop; *)
(*   - the /extract/batch handler (app/main.py).                           *)
(* Time is a discrete clock in seconds.  Strings the code only compares or *)
(* concatenates are sequences of fragments; texts the code scans are       *)
(* sequences of tokens.                                                    *)
(***************************************************************************)
EXTENDS Integers, Sequences, FiniteSets, TLC

VARIABLES
    \* ---- LLMClient (shared by every request) and the calls in flight ----
    provider,           \* LLMClient.provider, fixed at construction
    time_since_last,    \* time.time() - last_request_time, read off the running clock
    pc,                 \* per call: where the coroutine stands
    sleepLeft,          \* per call: seconds left of the asyncio.sleep it is suspended in
    attempts,           \* per call: backend dispatches made so far
    outcome,            \* per call: what extract_from_image returned or raised
    lastError,          \* per call: the exception caught at line 57 by the frame that raised
    wait_time,          \* per call: the wait its latest _rate_limit computed (0: none)
    dispatchGap,        \* seconds between the two most recent stamps of last_request_time
    \* ---- _parse_llm_response taken alone ----
    content,            \* llm_response['content'], a sequence of tokens
    parsed,             \* what _parse_llm_response gave for it
    \* ---- one /extract/batch request ----
    files,              \* the uploaded files
    hpc,                \* where the handler extract_batch stands
    batch_data,         \* main.py: the (base64, filename) pairs built so far
    results,            \* extract_batch_data: the records appended so far
    epc,                \* where extract_data stands for the current file
    llm_response,       \* extract_data: what the provider call returned
    raw_data,           \* extract_data: the raw mapping
    structured_data,    \* extract_data: the MarksheetData, once built
    stages,             \* the stages the current extract_data has run, with their success
    runs,               \* one entry per extract_data call that has ended
    response,           \* what the handler answered
    \* ---- _create_extracted_field taken alone ----
    field_data,         \* the raw field handed to _create_extracted_field
    field,              \* the ExtractedField it built
    \* ---- structuring and confidence post-processing of one response ----
    raw_fields,         \* the raw mapping, field by field
    mdata,              \* the MarksheetData being built and post-processed
    ppc,                \* where the pipeline stands
    structured,         \* mdata as _structure_extracted_data returned it
    calibrated,         \* mdata as calibrate_confidence returned it
    swallowed,          \* the post-processing steps that raised internally
    \* ---- the construction of the LLMClient ----
    settings,           \* the configuration: llm_provider and the providers with a key
    client,             \* the LLMClient: new, ready or failed, with its error
    \* ---- _validate_and_fix_subjects taken alone ----
    repair_in,          \* the raw mapping handed to the repair
    repair_out,         \* what the repair returned or raised
    \* ---- one backend variant taken alone ----
    backend,            \* self.provider, which selects the variant
    model_answers,      \* what each model of the variant answers when called, in order
    backend_result,     \* what the variant returned or raised, and the models it called
    \* ---- _create_fallback_structure taken alone, character by character ----
    fallback_content,   \* the text no strategy could parse
    fallback_out,       \* the mapping built for it
    \* ---- _clean_subject_name taken alone, applied once and once more ----
    name_in,            \* the subject name handed to it
    cleaned_once,       \* what it returned
    cleaned_twice       \* what it returned for its own result

gwVars == <<provider, time_since_last, pc, sleepLeft, attempts, outcome,
            lastError, wait_time, dispatchGap>>

parseVars == <<content, parsed>>

batchVars == <<files, hpc, batch_data, results, epc, llm_response, raw_data,
               structured_data, stages, runs, response>>

fieldVars == <<field_data, field>>

confVars == <<raw_fields, mdata, ppc, structured, calibrated, swallowed>>

clientVars == <<settings, client>>

repairVars == <<repair_in, repair_out>>

backendVars == <<backend, model_answers, backend_result>>

fallbackVars == <<fallback_content, fallback_out>>

cleanVars == <<name_in, cleaned_once, cleaned_twice>>

vars == <<gwVars, parseVars, batchVars, fieldVars, confVars, clientVars, repairVars,
          backendVars, fallbackVars, cleanVars>>

-----------------------------------------------------------------------------
(* Bounds of the model *)

NumCalls == 2
MaxAttempts == 3
MaxLen == 4
MaxFiles == 3
MaxSubjects == 2
MaxEntries == 2
MaxPieces == 3

(* Program constants *)

MinRequestInterval == 4
QuotaBackoff == 60
GeminiMinChars == 50
OpenrouterMinChars == 100

Calls == 1..NumCalls

-----------------------------------------------------------------------------
(* Errors: an exception is its class and its message, the message a        *)
(* sequence of text fragments (concatenation is \o).                       *)

Exc(type, msg) == [type |-> type, msg |-> msg]

\* What the provider SDKs raise: each has a backend-specific class.
SdkErrors ==
    { Exc("RateLimitError", <<"Error code: 429">>),
      Exc("ResourceExhausted", <<"Quota exceeded for metric">>),
      Exc("APIConnectionError", <<"Connection error">>) }

\* "429" in text
Has429(frag) == frag \in {"Error code: 429"}

\* "quota" in text.lower()
HasQuotaLower(frag) == frag \in {"Quota exceeded for metric"}

IsQuotaError(e) ==
    \E i \in 1..Len(e.msg) : Has429(e.msg[i]) \/ HasQuotaLower(e.msg[i])

(* One answer of one model of a backend: a text of some length (0 stands   *)
(* for an empty or missing text), a safety-blocked candidate, or an error. *)
TextLens == {0, 30, 80, 200}

Text(n) == [kind |-> "text", len |-> n]
Blocked == [kind |-> "blocked"]
Raises(e) == [kind |-> "raise", err |-> e]

TextAnswers == { Text(n) : n \in TextLens }
ErrorAnswers == { Raises(e) : e \in SdkErrors }

Ok(len, prov, model) ==
    [kind |-> "ok", content |-> len, provider |-> prov, model |-> model]
Failed(e) == [kind |-> "error", type |-> e.type, msg |-> e.msg]
NoOutcome == [kind |-> "none"]
NoError == Exc("none", <<>>)

AsExc(r) == Exc(r.type, r.msg)

-----------------------------------------------------------------------------
(* The backend variants.  Each returns the outcome and the models called.  *)

_extract_openai(a) ==
    IF a.kind = "raise"
    THEN [out |-> Failed(a.err), calls |-> <<"gpt-4o">>]
    ELSE [out |-> Ok(a.len, "openai", "gpt-4o"), calls |-> <<"gpt-4o">>]

GeminiPrimaryFailure(a) ==
    CASE a.kind = "raise" -> a.err
      [] a.kind = "blocked" -> Exc("Exception", <<"Content was blocked by safety filters">>)
      [] OTHER -> Exc("Exception", <<"Response too short or empty from Gemini Flash">>)

GeminiError(e) == Failed(Exc("Exception", <<"Gemini API error: ">> \o e.msg))

_extract_gemini(a, b) ==
    IF a.kind = "text" /\ a.len >= GeminiMinChars
    THEN [out |-> Ok(a.len, "gemini", "gemini-1.5-flash"),
          calls |-> <<"gemini-1.5-flash">>]
    ELSE [out |-> CASE b.kind = "raise" -> GeminiError(b.err)
                    [] b.kind = "text" /\ b.len = 0 ->
                         GeminiError(Exc("Exception", <<"Empty response from Gemini Pro">>))
                    [] OTHER -> Ok(b.len, "gemini", "gemini-1.5-pro"),
          calls |-> <<"gemini-1.5-flash", "gemini-1.5-pro">>]

models_to_try ==
    <<"google/gemini-2.0-flash-exp", "google/gemini-1.5-pro",
      "openai/gpt-4o-mini", "anthropic/claude-3-haiku">>

OpenrouterModelError(a, model) ==
    IF a.kind = "raise" THEN a.err
    ELSE Exc("Exception", <<"Response too short from ", model>>)

RECURSIVE OpenrouterLoop(_, _, _, _)
OpenrouterLoop(as, i, last_error, calls) ==
    IF i > Len(models_to_try)
    THEN [out |-> Failed(last_error), calls |-> calls]
    ELSE IF as[i].kind = "text" /\ as[i].len > OpenrouterMinChars
         THEN [out |-> Ok(as[i].len, "openrouter", models_to_try[i]),
               calls |-> Append(calls, models_to_try[i])]
         ELSE OpenrouterLoop(as, i + 1, OpenrouterModelError(as[i], models_to_try[i]),
                             Append(calls, models_to_try[i]))

\* a loop that would keep the first failure instead of the latest one
OpenrouterFirstError(as) ==
    LET r == OpenrouterLoop(as, 1, NoError, <<>>)
    IN  IF r.out.kind = "error"
        THEN [r EXCEPT !.out = Failed(OpenrouterModelError(as[1], models_to_try[1]))]
        ELSE r

_extract_openrouter(as) == OpenrouterLoop(as, 1, NoError, <<>>)

OpenaiResults == { _extract_openai(a) : a \in TextAnswers \cup ErrorAnswers }

GeminiResults ==
    { _extract_gemini(a, b) : a \in TextAnswers \cup ErrorAnswers \cup {Blocked},
                              b \in TextAnswers \cup ErrorAnswers }

OpenrouterAnswers == { Text(30), Text(200) } \cup ErrorAnswers

OpenrouterResults ==
    { _extract_openrouter(as) : as \in [1..Len(models_to_try) -> OpenrouterAnswers] }

BackendResults(p) ==
    CASE p = "openai" -> OpenaiResults
      [] p = "gemini" -> GeminiResults
      [] OTHER -> OpenrouterResults

-----------------------------------------------------------------------------
(* One backend variant taken alone: the models answer as model_answers     *)
(* says, one answer per model of the variant, and the variant is run once. *)

\* the 50 and 100 character tests of lines 179 and 268, on both sides
AnswerLens == {0, GeminiMinChars - 1, GeminiMinChars, OpenrouterMinChars,
               OpenrouterMinChars + 1}

ModelAnswers == { Text(n) : n \in AnswerLens } \cup ErrorAnswers

\* the models each variant can call
ModelsOf(p) ==
    CASE p = "openai" -> <<"gpt-4o">>
      [] p = "gemini" -> <<"gemini-1.5-flash", "gemini-1.5-pro">>
      [] OTHER -> models_to_try

\* only the first model of the gemini variant is tested for a safety block
AnswerInputs(p) ==
    { as \in [1..Len(ModelsOf(p)) -> ModelAnswers \cup {Blocked}] :
        \A i \in 1..Len(ModelsOf(p)) :
            as[i] = Blocked => (p = "gemini" /\ i = 1) }

\* lines 51-56: the variant is chosen by self.provider
DispatchBackend(p, as) ==
    CASE p = "openai" -> _extract_openai(as[1])
      [] p = "gemini" -> _extract_gemini(as[1], as[2])
      [] OTHER -> _extract_openrouter(as)

NotDispatched == [out |-> NoOutcome, calls |-> <<>>]

RunBackend ==
    /\ backend_result = NotDispatched
    /\ backend_result' = DispatchBackend(backend, model_answers)
    /\ UNCHANGED <<backend, model_answers, gwVars, parseVars, batchVars, fieldVars,
                   confVars, clientVars, repairVars, fallbackVars, cleanVars>>

IdleBackend ==
    /\ backend = "openai"
    /\ model_answers = <<Text(0)>>
    /\ backend_result = NotDispatched

InitBackend ==
    /\ backend \in {"openai", "gemini", "openrouter"}
    /\ model_answers \in AnswerInputs(backend)
    /\ backend_result = NotDispatched

-----------------------------------------------------------------------------
(* extract_from_image and _rate_limit *)

\* line 64: every other failure is wrapped in one generic exception
WrapFailure(e) == Exc("Exception", <<"Failed to extract data: ">> \o e.msg)

HandlerRewraps(e) == WrapFailure(e)

\* line 62: what the recursive call raises leaves the enclosing except block as it is
HandlerPropagate(e) == e

RECURSIVE Unwind(_, _)
Unwind(e, frames) ==
    IF frames = 0 THEN e ELSE Unwind(HandlerPropagate(e), frames - 1)

\* The clock is kept relative to the stamp: the code reads last_request_time only
\* in the difference of line 69 and compares that difference with the interval
\* alone, so every difference of MinRequestInterval or more is one case.
Elapse(d) == IF d < MinRequestInterval THEN d + 1 ELSE MinRequestInterval

WaitTimeShort(d) ==
    IF d < MinRequestInterval - 1 THEN MinRequestInterval - 1 - d ELSE 0

\* lines 69-72: how long _rate_limit sleeps for a caller that reads the difference d
WaitTime(d) ==
    IF d < MinRequestInterval THEN MinRequestInterval - d ELSE 0

\* lines 76 and 50-64: stamp the clock, call the backend, handle what it gives
StampAndDispatch(c) ==
    \E r \in BackendResults(provider) :
        /\ time_since_last' = 0
        /\ dispatchGap' = time_since_last
        /\ attempts' = [attempts EXCEPT ![c] = @ + 1]
        /\ IF r.out.kind = "ok"
           THEN /\ pc' = [pc EXCEPT ![c] = "returned"]
                /\ outcome' = [outcome EXCEPT ![c] = r.out]
                /\ sleepLeft' = [sleepLeft EXCEPT ![c] = 0]
                /\ UNCHANGED lastError
           ELSE IF IsQuotaError(AsExc(r.out))
           THEN /\ pc' = [pc EXCEPT ![c] = "backoff"]
                /\ sleepLeft' = [sleepLeft EXCEPT ![c] = QuotaBackoff]
                /\ UNCHANGED <<outcome, lastError>>
           ELSE /\ pc' = [pc EXCEPT ![c] = "raised"]
                /\ lastError' = [lastError EXCEPT ![c] = AsExc(r.out)]
                /\ outcome' = [outcome EXCEPT ![c] =
                        Failed(Unwind(WrapFailure(AsExc(r.out)), attempts[c]))]
                /\ sleepLeft' = [sleepLeft EXCEPT ![c] = 0]

\* lines 48, 66-76: enter _rate_limit; sleep, or go straight to the backend
EnterRateLimit(c) ==
    IF WaitTime(time_since_last) > 0
    THEN /\ pc' = [pc EXCEPT ![c] = "rate_wait"]
         /\ sleepLeft' = [sleepLeft EXCEPT ![c] = WaitTime(time_since_last)]
         /\ wait_time' = [wait_time EXCEPT ![c] = WaitTime(time_since_last)]
         /\ UNCHANGED <<time_since_last, attempts, outcome, lastError, dispatchGap>>
    ELSE /\ wait_time' = [wait_time EXCEPT ![c] = 0]
         /\ StampAndDispatch(c)

\* a request calls extract_from_image while others may be suspended in it
Call(c) ==
    /\ pc[c] = "idle"
    /\ EnterRateLimit(c)
    /\ UNCHANGED <<provider, parseVars, batchVars, fieldVars, confVars, clientVars, repairVars, backendVars, fallbackVars, cleanVars>>

\* the same, issued only when no other call is in flight
CallAlone(c) ==
    /\ pc[c] = "idle"
    /\ \A d \in Calls \ {c} : pc[d] \in {"idle", "returned", "raised"}
    /\ EnterRateLimit(c)
    /\ UNCHANGED <<provider, parseVars, batchVars, fieldVars, confVars, clientVars, repairVars, backendVars, fallbackVars, cleanVars>>

\* line 74 elapsed: the sleeper resumes at line 76
WakeRateLimit(c) ==
    /\ pc[c] = "rate_wait"
    /\ sleepLeft[c] = 0
    /\ StampAndDispatch(c)
    /\ UNCHANGED <<provider, wait_time, parseVars, batchVars, fieldVars, confVars, clientVars, repairVars, backendVars, fallbackVars, cleanVars>>

\* line 61 elapsed: line 62 calls extract_from_image again
WakeBackoff(c) ==
    /\ pc[c] = "backoff"
    /\ sleepLeft[c] = 0
    /\ attempts[c] < MaxAttempts
    /\ EnterRateLimit(c)
    /\ UNCHANGED <<provider, parseVars, batchVars, fieldVars, confVars, clientVars, repairVars, backendVars, fallbackVars, cleanVars>>

\* the request that made the call is over; a later request makes the next call
Finish(c) ==
    /\ pc[c] \in {"returned", "raised"}
    /\ pc' = [pc EXCEPT ![c] = "idle"]
    /\ attempts' = [attempts EXCEPT ![c] = 0]
    /\ outcome' = [outcome EXCEPT ![c] = NoOutcome]
    /\ lastError' = [lastError EXCEPT ![c] = NoError]
    /\ wait_time' = [wait_time EXCEPT ![c] = 0]
    /\ UNCHANGED <<provider, time_since_last, sleepLeft, dispatchGap, parseVars, batchVars, fieldVars, confVars, clientVars, repairVars, backendVars, fallbackVars, cleanVars>>

\* one second passes; a sleeper whose time is up may still be resumed later
Tick ==
    /\ time_since_last' = Elapse(time_since_last)
    /\ sleepLeft' = [c \in Calls |-> IF sleepLeft[c] > 0 THEN sleepLeft[c] - 1 ELSE 0]
    /\ UNCHANGED <<provider, pc, attempts, outcome, lastError, wait_time, dispatchGap,
                   parseVars, batchVars, fieldVars, confVars, clientVars, repairVars, backendVars, fallbackVars, cleanVars>>

\* lines 15-19: the client as constructed (last_request_time = 0 against the
\* epoch clock: the difference is far beyond the interval), no call made yet
InitGateway ==
    /\ provider \in {"openai", "gemini", "openrouter"}
    /\ time_since_last = MinRequestInterval
    /\ pc = [c \in Calls |-> "idle"]
    /\ sleepLeft = [c \in Calls |-> 0]
    /\ attempts = [c \in Calls |-> 0]
    /\ outcome = [c \in Calls |-> NoOutcome]
    /\ lastError = [c \in Calls |-> NoError]
    /\ wait_time = [c \in Calls |-> 0]
    /\ dispatchGap = MinRequestInterval

-----------------------------------------------------------------------------
(* Response texts.  A text is a sequence of tokens:                        *)
(*   "{" "}" "[" "]"   the JSON brackets                                   *)
(*   "k"               a member key with its colon, such as "a":           *)
(*   "s"               a non-empty JSON string, such as "x"                *)
(*   "0"               the number 0                                        *)
(*   "w"               a word that is no JSON, such as noise               *)
(*   "j"               the word json                                       *)
(*   "f"               a code fence, three backquotes                      *)
(*   "_"               one space                                           *)
(* A parsed JSON value is the text of the value without its spaces.        *)

Tokens == {"{", "}", "[", "]", "k", "s", "0", "w", "j", "f", "_"}

RECURSIVE SeqsUpTo(_)
SeqsUpTo(n) ==
    IF n = 0 THEN {<<>>}
    ELSE LET shorter == SeqsUpTo(n - 1)
         IN  shorter \cup { Append(q, t) : q \in {x \in shorter : Len(x) = n - 1}, t \in Tokens }

RemoveSpaces(text) == SelectSeq(text, LAMBDA t : t # "_")

\* the JSON grammar over the tokens (spaces removed)
RECURSIVE IsJsonValue(_)
IsJsonValue(t) ==
    CASE Len(t) = 0 -> FALSE
      [] Len(t) = 1 -> t[1] \in {"s", "0"}
      [] t[1] = "{" /\ t[Len(t)] = "}" ->
            \/ Len(t) = 2
            \/ Len(t) >= 4 /\ t[2] = "k" /\ IsJsonValue(SubSeq(t, 3, Len(t) - 1))
      [] t[1] = "[" /\ t[Len(t)] = "]" ->
            \/ Len(t) = 2
            \/ IsJsonValue(SubSeq(t, 2, Len(t) - 1))
      [] OTHER -> FALSE

NoJson == [ok |-> FALSE, val |-> <<>>]

\* json.loads: the value, or JSONDecodeError
json_loads(text) ==
    LET t == RemoveSpaces(text)
    IN  IF IsJsonValue(t) THEN [ok |-> TRUE, val |-> t] ELSE NoJson

\* the Python truth value of a parsed JSON value
Truthy(val) == val \notin {<<"{", "}">>, <<"[", "]">>, <<"0">>}

\* `not json_data`, json_data being None or a parsed value
NotData(d) == ~d.ok \/ ~Truthy(d.val)

IsDict(val) == Len(val) > 0 /\ val[1] = "{"

\* str.find and str.rfind of one token, as 1-based positions, 0 when absent
Find(text, tok) ==
    IF \E i \in 1..Len(text) : text[i] = tok
    THEN CHOOSE i \in 1..Len(text) :
            text[i] = tok /\ \A j \in 1..(i - 1) : text[j] # tok
    ELSE 0

RFind(text, tok) ==
    IF \E i \in 1..Len(text) : text[i] = tok
    THEN CHOOSE i \in 1..Len(text) :
            text[i] = tok /\ \A j \in (i + 1)..Len(text) : text[j] # tok
    ELSE 0

\* lines 95-100 and 113-118: parse what lies from the first "{" to the last "}"
BoundaryParse(text) ==
    LET json_start == Find(text, "{")
        json_end == RFind(text, "}")
    IN  IF json_start # 0 /\ json_end > json_start
        THEN json_loads(SubSeq(text, json_start, json_end))
        ELSE NoJson

\* the position of the first non-space at or after i
RECURSIVE SkipSpaces(_, _)
SkipSpaces(text, i) ==
    IF i <= Len(text) /\ text[i] = "_" THEN SkipSpaces(text, i + 1) ELSE i

\* line 108: re.sub of a fence, two spaces, the word json and any spaces
RECURSIVE SubFenceJson(_, _)
SubFenceJson(text, i) ==
    IF i > Len(text) THEN <<>>
    ELSE IF /\ i + 3 <= Len(text)
            /\ text[i] = "f" /\ text[i + 1] = "_" /\ text[i + 2] = "_" /\ text[i + 3] = "j"
         THEN SubFenceJson(text, SkipSpaces(text, i + 4))
         ELSE <<text[i]>> \o SubFenceJson(text, i + 1)

\* line 109: re.sub of a fence and any spaces
RECURSIVE SubFence(_, _)
SubFence(text, i) ==
    IF i > Len(text) THEN <<>>
    ELSE IF text[i] = "f"
         THEN SubFence(text, SkipSpaces(text, i + 1))
         ELSE <<text[i]>> \o SubFence(text, i + 1)

\* str.strip
RECURSIVE Strip(_)
Strip(text) ==
    IF Len(text) = 0 THEN text
    ELSE IF text[1] = "_" THEN Strip(Tail(text))
    ELSE IF text[Len(text)] = "_" THEN Strip(SubSeq(text, 1, Len(text) - 1))
    ELSE text

\* lines 108-110
CleanFences(text) == Strip(SubFence(SubFenceJson(text, 1), 1))

\* a strategy runs only while json_data is falsy, and assigns only when it parses
Attempt(json_data, parse) ==
    IF NotData(json_data) /\ parse.ok THEN parse ELSE json_data

\* lines 293-304: the skeleton with the original text
_create_fallback_structure(text) == [kind |-> "fallback", val |-> text]

Strategy1(text) == Attempt(NoJson, json_loads(text))
Strategy2(text) == Attempt(Strategy1(text), BoundaryParse(text))
Strategy3(text) == Attempt(Strategy2(text), BoundaryParse(CleanFences(text)))

\* lines 71-131
_parse_llm_response(text) ==
    IF text = <<>>
    THEN [kind |-> "raise", val |-> <<>>]
    ELSE IF NotData(Strategy3(text))
         THEN _create_fallback_structure(text)
         ELSE [kind |-> "json", val |-> Strategy3(text).val]

NotParsed == [kind |-> "none", val |-> <<>>]

\* texts with an object inside noise or fences, longer than MaxLen
Wrapped ==
    { p \o c \o q :
        p \in {<<>>, <<"w">>, <<"f", "j", "_">>, <<"w", "[">>},
        c \in {<<"{", "k", "s", "}">>, <<"{", "k", "f", "s", "}">>,
               <<"{", "k", "{", "}", "}">>, <<"{", "}">>, <<"{", "k", "w", "}">>},
        q \in {<<>>, <<"w">>, <<"_", "f">>, <<"]">>, <<"}">>} }

Contents == SeqsUpTo(MaxLen) \cup Wrapped

ParseResponse ==
    /\ parsed = NotParsed
    /\ parsed' = _parse_llm_response(content)
    /\ UNCHANGED <<content, gwVars, batchVars, fieldVars, confVars, clientVars, repairVars, backendVars, fallbackVars, cleanVars>>

IdleParse == content = <<>> /\ parsed = NotParsed

IdleGateway ==
    /\ provider = "gemini"
    /\ time_since_last = MinRequestInterval
    /\ pc = [c \in Calls |-> "idle"]
    /\ sleepLeft = [c \in Calls |-> 0]
    /\ attempts = [c \in Calls |-> 0]
    /\ outcome = [c \in Calls |-> NoOutcome]
    /\ lastError = [c \in Calls |-> NoError]
    /\ wait_time = [c \in Calls |-> 0]
    /\ dispatchGap = MinRequestInterval

-----------------------------------------------------------------------------
(* extract_data, stage by stage.  At this level a raw mapping is known by  *)
(* its type and the types of its four sections, and a response text comes  *)
(* with the name its top-level key "k" stands for.                         *)

SectionNames == {"candidate_details", "subjects", "overall_result", "document_info"}

Documents ==
    [ text : { <<>>, <<"w">>, <<"[", "s", "]">>, <<"{", "k", "s", "}">>,
               <<"{", "k", "{", "}", "}">>, <<"{", "k", "[", "]", "}">>,
               <<"w", "{", "k", "0", "}">> },
      key : SectionNames \cup {"other"} ]

NoResponse == [text |-> <<>>, key |-> "none", provider |-> "none", model |-> "none"]

\* llm_client.py lines 122-126, 176-180, 202-206 and 270-274: the mapping of a
\* backend names the provider and the model that answered
Response(doc, out) ==
    [text |-> doc.text, key |-> doc.key, provider |-> out.provider, model |-> out.model]

\* the successful outcomes of the configured backend
Answers == { r.out : r \in { b \in BackendResults(provider) : b.out.kind = "ok" } }

\* the Python type of a parsed JSON value
TypeOf(val) ==
    CASE val[1] = "{" -> "dict"
      [] val[1] = "[" -> "list"
      [] val[1] = "s" -> "str"
      [] OTHER -> "int"

Raw(kind, cd, subj, ov, doc) ==
    [kind |-> kind, candidate_details |-> cd, subjects |-> subj,
     overall_result |-> ov, document_info |-> doc]

NoRaw == Raw("none", "absent", "absent", "absent", "absent")

\* the type of the member of a one-member object stored under `name`
MemberType(val, key, name) ==
    IF Len(val) > 2 /\ key = name THEN TypeOf(SubSeq(val, 3, Len(val) - 1)) ELSE "absent"

\* the raw mapping that _parse_llm_response hands on (lines 125-127)
RawData(p, key) ==
    CASE p.kind = "fallback" -> Raw("dict", "dict", "list", "dict", "dict")
      [] p.kind = "json" /\ IsDict(p.val) ->
            Raw("dict", MemberType(p.val, key, "candidate_details"),
                MemberType(p.val, key, "subjects"),
                MemberType(p.val, key, "overall_result"),
                MemberType(p.val, key, "document_info"))
      [] p.kind = "json" -> Raw(TypeOf(p.val), "absent", "absent", "absent", "absent")
      [] OTHER -> NoRaw

\* lines 133-197: never raises; a mapping whose subjects are a list (or absent,
\* where the default is the empty list) gets the rebuilt list stored back
_validate_and_fix_subjects(raw) ==
    IF raw.kind = "dict" /\ raw.subjects \in {"list", "absent"}
    THEN [raw EXCEPT !.subjects = "list"]
    ELSE raw

MarksheetData(subj) ==
    [kind |-> "MarksheetData", candidate_details |-> "CandidateDetails",
     subjects |-> subj, overall_result |-> "OverallResult",
     document_info |-> "DocumentInfo"]

NoData ==
    [kind |-> "none", candidate_details |-> "none", subjects |-> "none",
     overall_result |-> "none", document_info |-> "none"]

\* lines 328-393: .get on the mapping and on each section that is present
CanStructure(raw) ==
    /\ raw.kind = "dict"
    /\ raw.candidate_details \in {"dict", "absent"}
    /\ raw.overall_result \in {"dict", "absent"}
    /\ raw.document_info \in {"dict", "absent"}

_structure_extracted_data(raw) ==
    IF CanStructure(raw) THEN MarksheetData("list") ELSE NoData

\* lines 435-448: never raises, returns the data
_post_process_confidence(data) == data

ProviderFailure == WrapFailure(Exc("APIConnectionError", <<"Connection error">>))
ParseFailure ==
    Exc("ValueError", <<"Failed to parse LLM response: ", "Empty response from LLM">>)
StructureFailure ==
    Exc("ValueError", <<"Failed to structure extracted data: ", "no attribute get">>)

StageOrder == <<"provider", "parse", "repair", "structure", "post">>

EpcAfter(stage) ==
    CASE stage = "provider" -> "parse"
      [] stage = "parse" -> "repair"
      [] stage = "repair" -> "structure"
      [] stage = "structure" -> "post"
      [] OTHER -> "returned"

NextStageIgnoresFailure(stage, ok) == EpcAfter(stage)

\* lines 42-69: a stage that raises ends extract_data (the except re-raises)
NextStage(stage, ok) == IF ok THEN EpcAfter(stage) ELSE "raised"

\* lines 450-479
\* llm_client.py lines 302-309: no statement assigns current_model
get_provider_info ==
    [provider |-> provider, configured |-> TRUE, model |-> "auto-detect"]

\* confidence.py lines 173-185
get_method_info == [method |-> "multi-factor-calibrated", version |-> "1.0"]

get_extraction_metadata(filename) ==
    [filename |-> filename, llm_provider |-> get_provider_info.provider,
     model_info |-> get_provider_info, extraction_version |-> "1.1.0",
     confidence_method |-> get_method_info]

NoMetadata ==
    [filename |-> 0, llm_provider |-> "none",
     model_info |-> [provider |-> "none", configured |-> FALSE, model |-> "none"],
     extraction_version |-> "none",
     confidence_method |-> [method |-> "none", version |-> "none"]]

SuccessRecord(filename, data) ==
    [filename |-> filename, success |-> TRUE, data |-> data, error |-> <<>>,
     metadata |-> get_extraction_metadata(filename)]

FailureRecord(filename, e) ==
    [filename |-> filename, success |-> FALSE, data |-> NoData, error |-> e.msg,
     metadata |-> NoMetadata]

RecordFailureDropped(rs, filename, e) == rs

\* lines 494-501: the failure becomes a record and the loop goes on
RecordFailure(rs, filename, e) == Append(rs, FailureRecord(filename, e))

CurrentFile == batch_data[Len(runs) + 1]

\* one stage of extract_data has ended: go on, or leave extract_data and let the
\* loop of extract_batch_data (lines 485-501) append its record
Advance(stage, ok, data, e) ==
    LET log == Append(stages, [stage |-> stage, ok |-> ok])
        nxt == NextStage(stage, ok)
    IN  IF nxt \in {"returned", "raised"}
        THEN /\ epc' = "idle"
             /\ stages' = <<>>
             /\ runs' = Append(runs, [filename |-> CurrentFile, stages |-> log,
                                      provider |-> llm_response.provider,
                                      model |-> llm_response.model,
                                      returned |-> (nxt = "returned"),
                                      data |-> IF nxt = "returned" THEN data ELSE NoData,
                                      error |-> IF nxt = "returned" THEN <<>> ELSE e.msg])
             /\ results' = IF nxt = "returned"
                           THEN Append(results, SuccessRecord(CurrentFile, data))
                           ELSE RecordFailure(results, CurrentFile, e)
        ELSE /\ epc' = nxt
             /\ stages' = log
             /\ UNCHANGED <<runs, results>>

\* line 485: the loop takes the next pair and calls extract_data
StartExtract ==
    /\ hpc = "extract" /\ epc = "idle"
    /\ Len(runs) < Len(batch_data)
    /\ epc' = "provider"
    /\ llm_response' = NoResponse
    /\ raw_data' = NoRaw
    /\ structured_data' = NoData
    /\ UNCHANGED <<files, hpc, batch_data, results, stages, runs, response,
                   gwVars, parseVars, fieldVars, confVars, clientVars, repairVars, backendVars, fallbackVars, cleanVars>>

\* line 50
ProviderStage ==
    /\ hpc = "extract" /\ epc = "provider"
    /\ \/ \E doc \in Documents, out \in Answers :
             /\ llm_response' = Response(doc, out)
             /\ Advance("provider", TRUE, structured_data, NoError)
       \/ /\ UNCHANGED llm_response
          /\ Advance("provider", FALSE, structured_data, ProviderFailure)
    /\ UNCHANGED <<files, hpc, batch_data, raw_data, structured_data, response,
                   gwVars, parseVars, fieldVars, confVars, clientVars, repairVars, backendVars, fallbackVars, cleanVars>>

\* line 53
ParseStage ==
    /\ hpc = "extract" /\ epc = "parse"
    /\ LET p == _parse_llm_response(llm_response.text)
       IN  /\ raw_data' = IF p.kind = "raise" THEN raw_data
                          ELSE RawData(p, llm_response.key)
           /\ Advance("parse", p.kind # "raise", structured_data, ParseFailure)
    /\ UNCHANGED <<files, hpc, batch_data, llm_response, structured_data, response,
                   gwVars, parseVars, fieldVars, confVars, clientVars, repairVars, backendVars, fallbackVars, cleanVars>>

\* line 56
RepairStage ==
    /\ hpc = "extract" /\ epc = "repair"
    /\ raw_data' = _validate_and_fix_subjects(raw_data)
    /\ Advance("repair", TRUE, structured_data, NoError)
    /\ UNCHANGED <<files, hpc, batch_data, llm_response, structured_data, response,
                   gwVars, parseVars, fieldVars, confVars, clientVars, repairVars, backendVars, fallbackVars, cleanVars>>

\* line 59
StructureStage ==
    /\ hpc = "extract" /\ epc = "structure"
    /\ structured_data' = _structure_extracted_data(raw_data)
    /\ Advance("structure", CanStructure(raw_data), structured_data', StructureFailure)
    /\ UNCHANGED <<files, hpc, batch_data, llm_response, raw_data, response,
                   gwVars, parseVars, fieldVars, confVars, clientVars, repairVars, backendVars, fallbackVars, cleanVars>>

\* lines 62-65
PostStage ==
    /\ hpc = "extract" /\ epc = "post"
    /\ structured_data' = _post_process_confidence(structured_data)
    /\ Advance("post", TRUE, structured_data', NoError)
    /\ UNCHANGED <<files, hpc, batch_data, llm_response, raw_data, response,
                   gwVars, parseVars, fieldVars, confVars, clientVars, repairVars, backendVars, fallbackVars, cleanVars>>

\* line 503
BatchReturn ==
    /\ hpc = "extract" /\ epc = "idle"
    /\ Len(runs) = Len(batch_data)
    /\ hpc' = "respond"
    /\ UNCHANGED <<files, batch_data, results, epc, llm_response, raw_data,
                   structured_data, stages, runs, response, gwVars, parseVars, fieldVars, confVars, clientVars, repairVars, backendVars, fallbackVars, cleanVars>>

-----------------------------------------------------------------------------
(* The handler of /extract/batch (main.py lines 185-260) *)

max_batch_files == 10

HttpError(status, about) ==
    [kind |-> "http_error", status |-> status, about |-> about,
     results |-> <<>>, failed_files |-> <<>>, total_processed |-> 0]

NoResponseYet ==
    [kind |-> "none", status |-> 0, about |-> 0,
     results |-> <<>>, failed_files |-> <<>>, total_processed |-> 0]

FirstInvalid == CHOOSE i \in 1..Len(files) :
                    ~files[i].valid /\ \A j \in 1..(i - 1) : files[j].valid

\* lines 194-204: the size check and validate_batch_files
ValidateBatch ==
    /\ hpc = "validate"
    /\ IF Len(files) > max_batch_files \/ Len(files) = 0
       THEN hpc' = "done" /\ response' = HttpError(400, 0)
       ELSE IF \E i \in 1..Len(files) : ~files[i].valid
       THEN hpc' = "done" /\ response' = HttpError(400, FirstInvalid)
       ELSE hpc' = "upload" /\ UNCHANGED response
    /\ UNCHANGED <<files, batch_data, results, epc, llm_response, raw_data,
                   structured_data, stages, runs, gwVars, parseVars, fieldVars, confVars, clientVars, repairVars, backendVars, fallbackVars, cleanVars>>

\* lines 208-220: process_upload of the next file; its failure is raised as an
\* HTTPException, which the handler re-raises; after the last file the pairs
\* are handed to extract_batch_data
UploadNext ==
    /\ hpc = "upload"
    /\ LET i == Len(batch_data) + 1
       IN  IF files[i].upload
           THEN /\ batch_data' = Append(batch_data, files[i].filename)
                /\ hpc' = IF i = Len(files) THEN "extract" ELSE "upload"
                /\ UNCHANGED response
           ELSE /\ hpc' = "done"
                /\ response' = HttpError(400, files[i].filename)
                /\ UNCHANGED batch_data
    /\ UNCHANGED <<files, results, epc, llm_response, raw_data, structured_data,
                   stages, runs, gwVars, parseVars, fieldVars, confVars, clientVars, repairVars, backendVars, fallbackVars, cleanVars>>

Successes(rs) == SelectSeq(rs, LAMBDA r : r.success)
Failures(rs) == SelectSeq(rs, LAMBDA r : ~r.success)

\* lines 222-251
Respond ==
    /\ hpc = "respond"
    /\ hpc' = "done"
    /\ response' =
          [kind |-> "batch", status |-> 200, about |-> 0,
           results |-> [i \in 1..Len(Successes(results)) |->
                          [data |-> Successes(results)[i].data,
                           extraction_metadata |-> Successes(results)[i].metadata]],
           failed_files |-> [i \in 1..Len(Failures(results)) |->
                          [filename |-> Failures(results)[i].filename,
                           error |-> Failures(results)[i].error]],
           total_processed |-> Len(files)]
    /\ UNCHANGED <<files, batch_data, results, epc, llm_response, raw_data,
                   structured_data, stages, runs, gwVars, parseVars, fieldVars, confVars, clientVars, repairVars, backendVars, fallbackVars, cleanVars>>

Uploads ==
    UNION { [1..n -> [valid : BOOLEAN, upload : BOOLEAN]] : n \in 0..MaxFiles }

IdleBatchLocals ==
    /\ batch_data = <<>>
    /\ results = <<>>
    /\ epc = "idle"
    /\ llm_response = NoResponse
    /\ raw_data = NoRaw
    /\ structured_data = NoData
    /\ stages = <<>>
    /\ runs = <<>>
    /\ response = NoResponseYet

\* a request with its files; the filename of a file is its position
InitBatch ==
    /\ \E u \in Uploads :
          files = [i \in 1..Len(u) |->
                     [filename |-> i, valid |-> u[i].valid, upload |-> u[i].upload]]
    /\ hpc = "validate"
    /\ IdleBatchLocals

IdleBatch == files = <<>> /\ hpc = "none" /\ IdleBatchLocals

-----------------------------------------------------------------------------
(* _create_extracted_field (extractor.py lines 395-433).  A Python value is *)
(* known by its type t, its characters s when it is a string ("_" is a      *)
(* space) and its number n; floats are counted in hundredths.               *)

Scalar(t, s, n) == [t |-> t, s |-> s, n |-> n]
PyNone == Scalar("none", <<>>, 0)
Missing == Scalar("missing", <<>>, 0)
PyStr(s) == Scalar("str", s, 0)
PyInt(n) == Scalar("int", <<>>, n)
PyFloat(n) == Scalar("float", <<>>, n)

Bare(x) == [t |-> x.t, s |-> x.s, n |-> x.n, value |-> Missing, confidence |-> Missing]
Dict(v, c) == [t |-> "dict", s |-> <<>>, n |-> 0, value |-> v, confidence |-> c]

StrInputs ==
    { <<>>, <<"_">>, <<"N", "/", "A">>, <<"_", "n", "/", "a", "_">>,
      <<"N", "o", "n", "e">>, <<"n", "u", "l", "l">>,
      <<"R", "a", "v", "i">>, <<"_", "8", "5", "_">> }

Scalars == {PyNone} \cup {PyStr(s) : s \in StrInputs} \cup {PyInt(0), PyInt(85)}

NumericStrs == { <<"0", ".", "9">> }

ConfidenceInputs ==
    {Missing, PyNone, PyFloat(0), PyFloat(90), PyFloat(150), PyFloat(0 - 20),
     PyStr(<<"h", "i", "g", "h">>), PyStr(<<"0", ".", "9">>)}

FieldInputs ==
    {Bare(x) : x \in Scalars}
        \cup {Dict(v, c) : v \in Scalars \cup {Missing}, c \in ConfidenceInputs}

\* the Python truth value of a field or of a value
PyTruthy(x) ==
    CASE x.t = "str" -> x.s # <<>>
      [] x.t \in {"int", "float"} -> x.n # 0
      [] x.t = "dict" -> x.value # Missing \/ x.confidence # Missing
      [] OTHER -> FALSE

\* dict.get(key, default)
Get(x, default) == IF x = Missing THEN default ELSE x

DigitChars == <<"0", "1", "2", "3", "4", "5", "6", "7", "8", "9">>

RECURSIVE Digits(_)
Digits(n) ==
    IF n < 10 THEN <<DigitChars[n + 1]>>
    ELSE Digits(n \div 10) \o <<DigitChars[(n % 10) + 1]>>

\* str(x) of a string or an int
Str(x) == IF x.t = "str" THEN x.s ELSE Digits(x.n)

LowerCase == <<"a", "b", "c", "d", "e", "f", "g", "h", "i", "j", "k", "l", "m", "n", "o", "p", "q", "r", "s", "t", "u", "v", "w", "x", "y", "z">>
UpperCase == <<"A", "B", "C", "D", "E", "F", "G", "H", "I", "J", "K", "L", "M", "N", "O", "P", "Q", "R", "S", "T", "U", "V", "W", "X", "Y", "Z">>

\* str.lower, letter by letter
LowerChar(c) ==
    IF \E n \in 1..Len(UpperCase) : UpperCase[n] = c
    THEN LowerCase[CHOOSE n \in 1..Len(UpperCase) : UpperCase[n] = c]
    ELSE c

Lower(s) == [i \in 1..Len(s) |-> LowerChar(s[i])]

\* line 417
Sentinels ==
    { <<"n", "/", "a">>, <<"n", "u", "l", "l">>, <<"n", "o", "n", "e">>, <<>> }

\* float(confidence): the strings that are not numerals raise ValueError
CanFloat(c) == c.t \in {"int", "float"} \/ (c.t = "str" /\ c.s \in NumericStrs)

Float(c) ==
    CASE c.t = "float" -> c.n
      [] c.t = "int" -> c.n * 100
      [] OTHER -> 90

Max(a, b) == IF a >= b THEN a ELSE b
Min(a, b) == IF a <= b THEN a ELSE b

\* lines 422-425
ClampConfidence(c) ==
    IF c = PyNone THEN 0
    ELSE IF CanFloat(c) THEN Max(0, Min(100, Float(c)))
    ELSE 0

NoField == [kind |-> "none", value |-> PyNone, confidence |-> 0]
FieldRejected == [kind |-> "raise", value |-> PyNone, confidence |-> 0]

\* schemas.py lines 5-9: value must be a string or None
ExtractedField(value, confidence) ==
    IF value.t \in {"none", "str"}
    THEN [kind |-> "field", value |-> value, confidence |-> confidence]
    ELSE FieldRejected

_create_extracted_field(fd) ==
    IF ~PyTruthy(fd) THEN ExtractedField(PyNone, 0)
    ELSE LET value == CASE fd.t = "dict" -> Get(fd.value, PyNone)
                        [] fd.t = "str" -> PyStr(fd.s)
                        [] OTHER -> PyStr(Str(fd))
             confidence == IF fd.t = "dict" THEN Get(fd.confidence, PyFloat(0))
                           ELSE PyFloat(80)
             cleaned == IF PyTruthy(value) THEN PyStr(Strip(Str(value))) ELSE value
             sentinel == PyTruthy(value) /\ Lower(cleaned.s) \in Sentinels
         IN  ExtractedField(IF sentinel THEN PyNone ELSE cleaned,
                            ClampConfidence(IF sentinel THEN PyFloat(0) ELSE confidence))

CreateField ==
    /\ field = NoField
    /\ field' = _create_extracted_field(field_data)
    /\ UNCHANGED <<field_data, gwVars, parseVars, batchVars, confVars, clientVars, repairVars, backendVars, fallbackVars, cleanVars>>

\* the next raw field
NextField ==
    /\ field # NoField
    /\ field_data' \in FieldInputs
    /\ field' = NoField
    /\ UNCHANGED <<gwVars, parseVars, batchVars, confVars, clientVars, repairVars, backendVars, fallbackVars, cleanVars>>

IdleField == field_data = Bare(PyNone) /\ field = NoField

-----------------------------------------------------------------------------
(* Structuring field by field (extractor.py lines 328-393) and confidence   *)
(* post-processing (confidence.py).  From structuring on a confidence is    *)
(* counted in millionths, so that the products by 0.9, 0.95, 1.05 and 1.1   *)
(* are exact.                                                               *)

Scale == 10000
One == 100 * Scale
min_threshold == 50 * Scale

CandidateFields ==
    {"name", "father_name", "mother_name", "roll_number", "registration_number",
     "date_of_birth", "exam_year", "board_university", "institution"}
SubjectFields ==
    {"subject_name", "max_marks", "max_credits", "obtained_marks",
     "obtained_credits", "grade", "remarks"}
ResultFields ==
    {"total_marks", "total_credits", "percentage", "cgpa", "grade", "division",
     "result_status"}
DocumentFields == {"issue_date", "issue_place", "document_type", "academic_session"}

\* a section of the raw mapping that holds the one key `name`
Probe(fields, name, x) == [f \in fields |-> IF f = name THEN x ELSE Bare(PyNone)]

\* line 403 and 408: the field with its confidence in millionths
StructuredField(raw) ==
    LET f == _create_extracted_field(raw)
    IN  [f EXCEPT !.confidence = @ * Scale]

StructureSection(rawsec) == [f \in DOMAIN rawsec |-> StructuredField(rawsec[f])]

\* lines 349-361: the entries that are not dicts are skipped
StructureSubjects(subs) ==
    LET dicts == SelectSeq(subs, LAMBDA e : e.isdict)
    IN  [i \in 1..Len(dicts) |-> StructureSection(dicts[i].fields)]

StructureFields(raw) ==
    [candidate_details |-> StructureSection(raw.candidate_details),
     subjects |-> StructureSubjects(raw.subjects),
     overall_result |-> StructureSection(raw.overall_result),
     document_info |-> StructureSection(raw.document_info)]

SectionRejected(sec) == \E f \in DOMAIN sec : sec[f].kind = "raise"

\* a field that ExtractedField refuses makes _structure_extracted_data raise
StructureRaises(raw) ==
    LET m == StructureFields(raw)
    IN  \/ SectionRejected(m.candidate_details)
        \/ SectionRejected(m.overall_result)
        \/ SectionRejected(m.document_info)
        \/ \E i \in 1..Len(m.subjects) : SectionRejected(m.subjects[i])

\* confidence.py lines 93-101, in hundredths
_get_calibration_factor(field_type) ==
    CASE field_type = "candidate_detail" -> 100
      [] field_type = "subject_mark" -> 95
      [] field_type = "overall_result" -> 105
      [] field_type = "document_info" -> 90
      [] OTHER -> 100

\* confidence.py lines 65-91
_calibrate_field(fld, field_type) ==
    IF ~PyTruthy(fld.value) THEN fld
    ELSE LET calibrated_confidence ==
                 Min(One, (fld.confidence * _get_calibration_factor(field_type)) \div 100)
         IN  [fld EXCEPT !.confidence =
                 IF calibrated_confidence < min_threshold
                 THEN Max(calibrated_confidence, min_threshold)
                 ELSE calibrated_confidence]

CalibrateSection(sec, field_type) ==
    [f \in DOMAIN sec |-> _calibrate_field(sec[f], field_type)]

\* confidence.py lines 23-63
calibrate_confidence(data) ==
    [candidate_details |-> CalibrateSection(data.candidate_details, "candidate_detail"),
     subjects |-> [i \in 1..Len(data.subjects) |->
                     CalibrateSection(data.subjects[i], "subject_mark")],
     overall_result |-> CalibrateSection(data.overall_result, "overall_result"),
     document_info |-> CalibrateSection(data.document_info, "document_info")]

DigitValue(c) == CHOOSE n \in 0..9 : DigitChars[n + 1] = c

IsDigits(s) == Len(s) > 0 /\ \A i \in 1..Len(s) : \E n \in 1..10 : DigitChars[n] = s[i]

\* float(value) of a stripped string: the whole numbers, signed or not; the
\* other texts of the model raise ValueError
IsNumeral(s) ==
    \/ IsDigits(s)
    \/ Len(s) > 1 /\ s[1] = "-" /\ IsDigits(Tail(s))

RECURSIVE DigitsValue(_)
DigitsValue(s) ==
    IF Len(s) = 0 THEN 0
    ELSE DigitsValue(SubSeq(s, 1, Len(s) - 1)) * 10 + DigitValue(s[Len(s)])

NumeralValue(s) == IF s[1] = "-" THEN 0 - DigitsValue(Tail(s)) ELSE DigitsValue(s)

\* confidence.py lines 129-139
RECURSIVE TotalObtained(_)
TotalObtained(subjects) ==
    IF Len(subjects) = 0 THEN 0
    ELSE LET v == subjects[Len(subjects)]["obtained_marks"].value
             rest == TotalObtained(SubSeq(subjects, 1, Len(subjects) - 1))
         IN  IF PyTruthy(v) /\ IsNumeral(v.s) THEN rest + NumeralValue(v.s) ELSE rest

Abs(x) == IF x < 0 THEN 0 - x ELSE x

TotalsWithinTenth(total_obtained, stated_total) ==
    \/ stated_total < 0
    \/ 10 * Abs(total_obtained - stated_total) < stated_total

\* line 147: abs(total_obtained - stated_total) / stated_total < 0.05
TotalsMatch(total_obtained, stated_total) ==
    \/ stated_total < 0
    \/ 20 * Abs(total_obtained - stated_total) < stated_total

BoostUncapped(c, factor) == (c * factor) \div 100

\* lines 148-149 and 154-155: factor in hundredths
Boost(c, factor) == Min(One, (c * factor) \div 100)

Boosted(data) ==
    [data EXCEPT
       !.overall_result["total_marks"].confidence = Boost(@, 110),
       !.subjects = [i \in 1..Len(data.subjects) |->
                       [data.subjects[i] EXCEPT
                          !["obtained_marks"].confidence = Boost(@, 105)]]]

Checked(data, raised) == [data |-> data, raised |-> raised]

\* confidence.py lines 122-161; a ZeroDivisionError at line 147 is caught at
\* line 160 before anything was assigned
_check_marks_consistency(data) ==
    LET tm == data.overall_result["total_marks"].value
    IN  IF Len(data.subjects) = 0 \/ ~PyTruthy(tm) \/ ~IsNumeral(tm.s)
        THEN Checked(data, FALSE)
        ELSE IF NumeralValue(tm.s) = 0
        THEN Checked(data, TRUE)
        ELSE IF TotalsMatch(TotalObtained(data.subjects), NumeralValue(tm.s))
        THEN Checked(Boosted(data), FALSE)
        ELSE Checked(data, FALSE)

\* confidence.py lines 103-120: the date and name checks do nothing
apply_consistency_checks(data) == _check_marks_consistency(data)

PostProcessPropagates(raised) == IF raised THEN "raised" ELSE "returned"

\* extractor.py lines 435-448 and 62-65: whatever happened inside, the data is
\* returned
PostProcessOutcome(raised) == "returned"

Ravi == <<"R", "a", "v", "i">>

CandidateInputs ==
    {Bare(PyNone), Bare(PyStr(Ravi)), Bare(PyStr(<<"N", "/", "A">>)),
     Dict(PyStr(Ravi), PyFloat(20)), Dict(PyStr(<<>>), PyFloat(20)),
     Dict(PyNone, PyFloat(90)), Dict(PyStr(<<"_", "8", "5", "_">>), PyFloat(150))}

MarkInputs ==
    {Bare(PyInt(85)), Bare(PyInt(0)), Dict(PyStr(<<"4", "0">>), PyFloat(90)),
     Dict(PyStr(<<"6", "0">>), PyFloat(98)), Dict(PyStr(Ravi), PyFloat(0 - 20)),
     Dict(PyInt(0), PyFloat(90))}

TotalInputs ==
    {Bare(PyNone), Bare(PyInt(85)), Dict(PyStr(<<"1", "0", "0">>), PyFloat(90)),
     Dict(PyStr(<<"1", "0", "0">>), PyFloat(98)), Dict(PyStr(<<"0">>), PyFloat(90)),
     Dict(PyStr(<<"-", "5">>), PyFloat(90)), Dict(PyStr(Ravi), PyFloat(20)),
     Dict(PyStr(<<"9", "8">>), PyFloat(50))}

DocumentInputs ==
    {Bare(PyNone), Dict(PyStr(Ravi), PyFloat(90)),
     Dict(PyStr(Ravi), PyStr(<<"h", "i", "g", "h">>)), Bare(PyStr(<<"n", "u", "l", "l">>))}

SubjectEntries ==
    {[isdict |-> TRUE, fields |-> Probe(SubjectFields, "obtained_marks", x)] :
        x \in MarkInputs}
      \cup {[isdict |-> FALSE, fields |-> Probe(SubjectFields, "obtained_marks", Bare(PyNone))]}

RawSubjectLists == UNION { [1..n -> SubjectEntries] : n \in 0..MaxSubjects }

RawDocs ==
    { [candidate_details |-> Probe(CandidateFields, "name", c),
       subjects |-> subs,
       overall_result |-> Probe(ResultFields, "total_marks", t),
       document_info |-> Probe(DocumentFields, "issue_date", d)] :
         c \in CandidateInputs, subs \in RawSubjectLists,
         t \in TotalInputs, d \in DocumentInputs }

EmptyRaw ==
    [candidate_details |-> Probe(CandidateFields, "name", Bare(PyNone)),
     subjects |-> <<>>,
     overall_result |-> Probe(ResultFields, "total_marks", Bare(PyNone)),
     document_info |-> Probe(DocumentFields, "issue_date", Bare(PyNone))]

EmptyData == StructureFields(EmptyRaw)

\* extractor.py line 59
StructureDoc ==
    /\ ppc = "structure"
    /\ IF StructureRaises(raw_fields)
       THEN ppc' = "raised" /\ UNCHANGED <<mdata, structured>>
       ELSE /\ mdata' = StructureFields(raw_fields)
            /\ structured' = mdata'
            /\ ppc' = "calibrate"
    /\ UNCHANGED <<raw_fields, calibrated, swallowed, gwVars, parseVars, batchVars,
                   fieldVars, clientVars, repairVars, backendVars, fallbackVars, cleanVars>>

\* extractor.py line 439
CalibrateDoc ==
    /\ ppc = "calibrate"
    /\ mdata' = calibrate_confidence(mdata)
    /\ calibrated' = mdata'
    /\ ppc' = "consistency"
    /\ UNCHANGED <<raw_fields, structured, swallowed, gwVars, parseVars, batchVars,
                   fieldVars, clientVars, repairVars, backendVars, fallbackVars, cleanVars>>

\* extractor.py lines 442-444 and the return of line 65
ConsistencyDoc ==
    /\ ppc = "consistency"
    /\ LET r == apply_consistency_checks(mdata)
       IN  /\ mdata' = r.data
           /\ swallowed' = IF r.raised THEN swallowed \cup {"consistency"} ELSE swallowed
           /\ ppc' = PostProcessOutcome(r.raised)
    /\ UNCHANGED <<raw_fields, structured, calibrated, gwVars, parseVars, batchVars,
                   fieldVars, clientVars, repairVars, backendVars, fallbackVars, cleanVars>>

IdleConfLocals ==
    /\ mdata = EmptyData
    /\ structured = EmptyData
    /\ calibrated = EmptyData
    /\ swallowed = {}

\* no document is being post-processed
NoDocument == [candidate_details |-> <<>>, subjects |-> <<>>, overall_result |-> <<>>,
               document_info |-> <<>>]

IdleConf ==
    /\ raw_fields = NoDocument
    /\ ppc = "none"
    /\ mdata = NoDocument
    /\ structured = NoDocument
    /\ calibrated = NoDocument
    /\ swallowed = {}

InitConf == raw_fields \in RawDocs /\ ppc = "structure" /\ IdleConfLocals

-----------------------------------------------------------------------------
(* Subject repair (extractor.py lines 133-283).  A name is a sequence of    *)
(* characters, "_" standing for a space.                                    *)

UpperChar(c) ==
    IF \E n \in 1..Len(LowerCase) : LowerCase[n] = c
    THEN UpperCase[CHOOSE n \in 1..Len(LowerCase) : LowerCase[n] = c]
    ELSE c

Upper(s) == [i \in 1..Len(s) |-> UpperChar(s[i])]

StartsWith(s, prefix) ==
    Len(s) >= Len(prefix) /\ SubSeq(s, 1, Len(prefix)) = prefix

\* extractor.py lines 23-29
common_subjects ==
    << <<"M", "A", "T", "H", "E", "M", "A", "T", "I", "C", "S">>,
       <<"E", "N", "G", "L", "I", "S", "H">>,
       <<"H", "I", "N", "D", "I">>,
       <<"S", "C", "I", "E", "N", "C", "E">>,
       <<"S", "O", "C", "I", "A", "L", "_", "S", "C", "I", "E", "N", "C", "E">>,
       <<"P", "H", "Y", "S", "I", "C", "S">>,
       <<"C", "H", "E", "M", "I", "S", "T", "R", "Y">>,
       <<"B", "I", "O", "L", "O", "G", "Y">>,
       <<"H", "I", "S", "T", "O", "R", "Y">>,
       <<"G", "E", "O", "G", "R", "A", "P", "H", "Y">>,
       <<"F", "I", "R", "S", "T", "_", "L", "A", "N", "G", "U", "A", "G", "E">>,
       <<"S", "E", "C", "O", "N", "D", "_", "L", "A", "N", "G", "U", "A", "G", "E">>,
       <<"P", "H", "Y", "S", "I", "C", "A", "L", "_", "S", "C", "I", "E", "N", "C", "E">>,
       <<"L", "I", "F", "E", "_", "S", "C", "I", "E", "N", "C", "E">>,
       <<"E", "n", "v", "i", "r", "o", "n", "m", "e", "n", "t", "a", "l", "_", "S", "t", "u", "d", "i", "e", "s">>,
       <<"I", "n", "d", "i", "a", "n", "_", "W", "r", "i", "t", "i", "n", "g", "_", "i", "n", "_", "E", "n", "g", "l", "i", "s", "h">>,
       <<"B", "r", "i", "t", "i", "s", "h", "_", "P", "o", "e", "t", "r", "y">>,
       <<"F", "e", "m", "i", "n", "i", "s", "m", "_", "T", "h", "e", "o", "r", "y">>,
       <<"D", "R", "A", "W", "I", "N", "G">>,
       <<"C", "O", "M", "P", "U", "T", "E", "R", "_", "S", "C", "I", "E", "N", "C", "E">>,
       <<"E", "C", "O", "N", "O", "M", "I", "C", "S">> >>

\* lines 217-220
common_100_subjects ==
    << <<"M", "A", "T", "H", "E", "M", "A", "T", "I", "C", "S">>,
       <<"E", "N", "G", "L", "I", "S", "H">>,
       <<"S", "C", "I", "E", "N", "C", "E">>,
       <<"S", "O", "C", "I", "A", "L", "_", "S", "C", "I", "E", "N", "C", "E">>,
       <<"P", "H", "Y", "S", "I", "C", "S">>,
       <<"C", "H", "E", "M", "I", "S", "T", "R", "Y">>,
       <<"B", "I", "O", "L", "O", "G", "Y">>,
       <<"H", "I", "S", "T", "O", "R", "Y">>,
       <<"G", "E", "O", "G", "R", "A", "P", "H", "Y">> >>

\* line 236
cbse_subjects ==
    << <<"H", "I", "N", "D", "I">>,
       <<"E", "N", "G", "L", "I", "S", "H">>,
       <<"M", "A", "T", "H", "E", "M", "A", "T", "I", "C", "S">>,
       <<"S", "C", "I", "E", "N", "C", "E">>,
       <<"S", "O", "C", "I", "A", "L", "_", "S", "C", "I", "E", "N", "C", "E">> >>

\* line 241
uni_subjects ==
    << <<"E", "n", "v", "i", "r", "o", "n", "m", "e", "n", "t", "a", "l", "_", "S", "t", "u", "d", "i", "e", "s">>,
       <<"L", "i", "t", "e", "r", "a", "t", "u", "r", "e">>,
       <<"C", "o", "r", "e", "_", "S", "u", "b", "j", "e", "c", "t">>,
       <<"E", "l", "e", "c", "t", "i", "v", "e">> >>

\* lines 264-276, in the order of the dict
expansions ==
    << [abbrev |-> <<"M", "A", "T", "H">>, full |-> <<"M", "A", "T", "H", "E", "M", "A", "T", "I", "C", "S">>],
       [abbrev |-> <<"E", "N", "G">>, full |-> <<"E", "N", "G", "L", "I", "S", "H">>],
       [abbrev |-> <<"S", "C", "I">>, full |-> <<"S", "C", "I", "E", "N", "C", "E">>],
       [abbrev |-> <<"S", "O", "C">>, full |-> <<"S", "O", "C", "I", "A", "L", "_", "S", "C", "I", "E", "N", "C", "E">>],
       [abbrev |-> <<"P", "H", "Y", "S">>, full |-> <<"P", "H", "Y", "S", "I", "C", "S">>],
       [abbrev |-> <<"C", "H", "E", "M">>, full |-> <<"C", "H", "E", "M", "I", "S", "T", "R", "Y">>],
       [abbrev |-> <<"B", "I", "O">>, full |-> <<"B", "I", "O", "L", "O", "G", "Y">>],
       [abbrev |-> <<"H", "I", "S", "T">>, full |-> <<"H", "I", "S", "T", "O", "R", "Y">>],
       [abbrev |-> <<"G", "E", "O">>, full |-> <<"G", "E", "O", "G", "R", "A", "P", "H", "Y">>],
       [abbrev |-> <<"F", "L">>, full |-> <<"F", "I", "R", "S", "T", "_", "L", "A", "N", "G", "U", "A", "G", "E">>],
       [abbrev |-> <<"S", "L">>, full |-> <<"S", "E", "C", "O", "N", "D", "_", "L", "A", "N", "G", "U", "A", "G", "E">>] >>

\* lines 258-262 and 279-281: strip, then every run of spaces becomes one
RECURSIVE CollapseSpaces(_)
CollapseSpaces(s) ==
    IF Len(s) < 2 THEN s
    ELSE IF s[1] = "_" /\ s[2] = "_" THEN CollapseSpaces(Tail(s))
    ELSE <<s[1]>> \o CollapseSpaces(Tail(s))

\* line 281: cleaned.upper().replace(abbrev, full_name, 1) under the test of
\* line 280, so the occurrence replaced is the leading one
Expand(cleaned, e) ==
    IF StartsWith(Upper(cleaned), e.abbrev)
    THEN e.full \o SubSeq(Upper(cleaned), Len(e.abbrev) + 1, Len(cleaned))
    ELSE cleaned

RECURSIVE ApplyExpansions(_, _)
ApplyExpansions(cleaned, k) ==
    IF k > Len(expansions) THEN cleaned
    ELSE ApplyExpansions(Expand(cleaned, expansions[k]), k + 1)

\* lines 255-283
_clean_subject_name(subject_name) ==
    IF subject_name = <<>> THEN subject_name
    ELSE ApplyExpansions(CollapseSpaces(Strip(subject_name)), 1)

\* str(None)
NoneText == <<"N", "o", "n", "e">>

\* lines 285-291; a key that is missing reads as None
_extract_value(fd) ==
    CASE fd.t = "dict" ->
            IF Get(fd.value, PyStr(<<>>)) = PyNone THEN NoneText
            ELSE Str(Get(fd.value, PyStr(<<>>)))
      [] fd.t \in {"none", "missing"} -> <<>>
      [] OTHER -> Str(fd)

Found(name) == [found |-> TRUE, name |-> name]
NotFound == [found |-> FALSE, name |-> <<>>]

CbseGrades == { <<"A", "1">>, <<"A", "2">>, <<"B", "1">>, <<"B", "2">> }
UniGrades == { <<"A", "+">>, <<"A">>, <<"B", "+">>, <<"B">> }

WrittenComponent == <<"W", "R", "I", "T", "T", "E", "N", "_", "C", "O", "M", "P", "O", "N", "E", "N", "T", "_">>
OralComponent == <<"O", "R", "A", "L", "_", "C", "O", "M", "P", "O", "N", "E", "N", "T", "_">>
FirstLanguage == <<"F", "I", "R", "S", "T", "_", "L", "A", "N", "G", "U", "A", "G", "E">>
SubjectLiteral == <<"S", "u", "b", "j", "e", "c", "t", "_">>

\* float() reads these as infinity, whatever the letter case or the sign
Infinities == { <<"i", "n", "f">>, <<"i", "n", "f", "i", "n", "i", "t", "y">> }

IsInfinite(s) ==
    \/ Lower(s) \in Infinities
    \/ Len(s) > 1 /\ s[1] \in {"+", "-"} /\ Lower(Tail(s)) \in Infinities

\* line 210: int() of an infinity raises OverflowError, which line 229 does
\* not catch; the handler of lines 251-253 returns None for it
Overflows(max_marks) == max_marks # <<>> /\ IsInfinite(Strip(max_marks))

\* an inference that would ask the master list first
InferByPositionFirst(subject, index) ==
    IF index < Len(common_subjects) THEN Found(common_subjects[index + 1]) ELSE NotFound

\* lines 199-253: index counts from 0
_infer_subject_name(subject, index) ==
    LET max_marks == _extract_value(subject.max_marks)
        grade == _extract_value(subject.grade)
        numeric == max_marks # <<>> /\ IsNumeral(Strip(max_marks))
        max_marks_int == IF numeric THEN NumeralValue(Strip(max_marks)) ELSE 0
        by_marks ==
            CASE numeric /\ max_marks_int = 200 -> Found(FirstLanguage)
              [] numeric /\ max_marks_int = 100 /\ index < Len(common_100_subjects) ->
                    Found(common_100_subjects[index + 1])
              [] numeric /\ max_marks_int = 90 -> Found(WrittenComponent \o Digits(index + 1))
              [] numeric /\ max_marks_int \in {10, 20} ->
                    Found(OralComponent \o Digits(index + 1))
              [] OTHER -> NotFound
        by_grade ==
            CASE Upper(grade) \in CbseGrades /\ index < Len(cbse_subjects) ->
                    Found(cbse_subjects[index + 1])
              [] Upper(grade) \notin CbseGrades /\ Upper(grade) \in UniGrades
                    /\ index < Len(uni_subjects) -> Found(uni_subjects[index + 1])
              [] OTHER -> NotFound
        by_position ==
            IF index < Len(common_subjects) THEN Found(common_subjects[index + 1])
            ELSE NotFound
    IN  IF Overflows(max_marks) THEN NotFound
        ELSE IF by_marks.found THEN by_marks
        ELSE IF grade # <<>> /\ by_grade.found THEN by_grade
        ELSE by_position

Absent == Bare(Missing)

Entry(name, max_marks, grade) ==
    [isdict |-> TRUE, subject_name |-> name, max_marks |-> max_marks,
     grade |-> grade, rest |-> "kept"]

NonDictEntry ==
    [isdict |-> FALSE, subject_name |-> Absent, max_marks |-> Absent,
     grade |-> Absent, rest |-> "junk"]

\* lines 149-157: the name as the loop reads it
NameOf(subject) ==
    LET subject_name_data == subject.subject_name
    IN  CASE subject_name_data.t = "missing" -> PyStr(<<>>)
          [] subject_name_data.t = "dict" -> Get(subject_name_data.value, PyStr(<<>>))
          [] subject_name_data.t = "str" -> PyStr(subject_name_data.s)
          [] OTHER -> IF PyTruthy(subject_name_data)
                      THEN PyStr(Str(subject_name_data)) ELSE PyStr(<<>>)

Fixed(subject) == [aborted |-> FALSE, entry |-> subject]
Aborted(subject) == [aborted |-> TRUE, entry |-> subject]

\* lines 160-191 for one dict entry; .lower() of a name that is no string
\* raises AttributeError
FixEntry(subject, index) ==
    LET subject_name == NameOf(subject)
        inferred == _infer_subject_name(subject, index)
    IN  IF ~PyTruthy(subject_name)
           \/ (subject_name.t = "str" /\ Lower(subject_name.s) \in Sentinels)
        THEN IF inferred.found
             THEN Fixed([subject EXCEPT
                           !.subject_name = Dict(PyStr(inferred.name), PyFloat(60))])
             ELSE Fixed([subject EXCEPT
                           !.subject_name = Dict(PyStr(SubjectLiteral \o Digits(index + 1)),
                                                 PyFloat(30))])
        ELSE IF subject_name.t # "str" THEN Aborted(subject)
        ELSE IF _clean_subject_name(subject_name.s) = subject_name.s THEN Fixed(subject)
        ELSE IF subject.subject_name.t = "dict"
        THEN Fixed([subject EXCEPT
                      !.subject_name.value = PyStr(_clean_subject_name(subject_name.s))])
        ELSE Fixed([subject EXCEPT
                      !.subject_name = Dict(PyStr(_clean_subject_name(subject_name.s)),
                                            PyFloat(80))])

\* lines 144-191: fixed_subjects is the list being built, inplace the list of
\* the mapping, whose dicts are changed in place
RECURSIVE FixLoop(_, _, _, _, _)
FixLoop(items, k, lead, fixed_subjects, inplace) ==
    IF k > Len(items)
    THEN [aborted |-> FALSE, fixed_subjects |-> fixed_subjects, inplace |-> inplace]
    ELSE IF ~items[k].isdict
    THEN FixLoop(items, k + 1, lead, fixed_subjects, inplace)
    ELSE LET r == FixEntry(items[k], lead + k - 1)
         IN  IF r.aborted
             THEN [aborted |-> TRUE, fixed_subjects |-> fixed_subjects, inplace |-> inplace]
             ELSE FixLoop(items, k + 1, lead, Append(fixed_subjects, r.entry),
                          [inplace EXCEPT ![k] = r.entry])

Returned(raw) == [kind |-> "returned", data |-> raw]

RepairPropagates(raw) == [kind |-> "raise", data |-> raw]

\* lines 195-197
RepairCaught(raw) == Returned(raw)

\* lines 133-197 on the whole mapping
FixSubjects(raw) ==
    IF raw.kind # "dict" THEN RepairCaught(raw)
    ELSE IF raw.subjects.t \notin {"absent", "list"} THEN Returned(raw)
    ELSE LET r == FixLoop(raw.subjects.items, 1, raw.subjects.lead, <<>>,
                          raw.subjects.items)
         IN  IF r.aborted
             THEN RepairCaught([raw EXCEPT !.subjects.items = r.inplace])
             ELSE Returned([raw EXCEPT !.subjects.t = "list",
                                       !.subjects.items = r.fixed_subjects])

NameInputs ==
    {Absent, Bare(PyNone), Bare(PyStr(<<"N", "/", "A">>)),
     Bare(PyStr(<<"M", "a", "t", "h", "_", "_", "I">>)), Bare(PyInt(101)),
     Dict(PyStr(<<"_", "P", "h", "y", "s", "i", "c", "s", "_">>), PyFloat(90)),
     Dict(PyInt(5), PyFloat(90)),
     Dict(PyStr(<<"_", "n", "/", "a", "_">>), PyFloat(90)),
     Dict(PyStr(<<"E", "N", "G", "L", "I", "S", "H">>), PyFloat(90))}

MaxMarksInputs ==
    {Absent, Dict(PyStr(<<"1", "0", "0">>), PyFloat(90)), Bare(PyInt(200)),
     Bare(PyInt(90)), Bare(PyInt(20)), Dict(PyNone, PyFloat(90)),
     Bare(PyStr(<<"i", "n", "f">>))}

GradeInputs == {Absent, Bare(PyStr(<<"A", "1">>)), Dict(PyStr(<<"b", "+">>), PyFloat(90))}

EntryInputs ==
    {Entry(n, Absent, Absent) : n \in NameInputs}
      \cup {Entry(Bare(PyStr(<<"N", "/", "A">>)), m, g) : m \in MaxMarksInputs, g \in GradeInputs}
      \cup {NonDictEntry}

\* the subjects that precede the listed ones: dicts with clean names, which
\* the loop leaves as they are
Leads == {0, Len(uni_subjects), Len(common_100_subjects), Len(common_subjects)}

SubjectsInputs ==
    {[t |-> "absent", lead |-> 0, items |-> <<>>], [t |-> "str", lead |-> 0, items |-> <<>>]}
      \cup {[t |-> "list", lead |-> l, items |-> items] :
               l \in Leads, items \in UNION {[1..n -> EntryInputs] : n \in 0..MaxEntries}}

\* a mapping with every subjects value, and a mapping with other sections or
\* a parsed value that is a list with the short ones
RepairInputs ==
    {[kind |-> "dict", others |-> "sections_a", subjects |-> sub] : sub \in SubjectsInputs}
      \cup [kind : {"dict", "list"}, others : {"sections_b"},
            subjects : {sub \in SubjectsInputs : sub.lead = 0 /\ Len(sub.items) <= 1}]

NotRepaired == [kind |-> "none", data |-> [kind |-> "none", others |-> "none",
                   subjects |-> [t |-> "absent", lead |-> 0, items |-> <<>>]]]

\* extractor.py line 56
Repair ==
    /\ repair_out = NotRepaired
    /\ repair_out' = FixSubjects(repair_in)
    /\ UNCHANGED <<repair_in, gwVars, parseVars, batchVars, fieldVars, confVars,
                   clientVars, backendVars, fallbackVars, cleanVars>>

IdleRepair ==
    /\ repair_in = [kind |-> "dict", others |-> "sections_a",
                    subjects |-> [t |-> "absent", lead |-> 0, items |-> <<>>]]
    /\ repair_out = NotRepaired

InitRepair == repair_in \in RepairInputs /\ repair_out = NotRepaired

-----------------------------------------------------------------------------
(* The construction of the client (llm_client.py lines 15-43) *)

Supported == {"openai", "gemini", "openrouter"}

ProviderSettings == {"gemini", "Gemini", "openai", "openrouter", "azure"}

KeySets == { {}, {"gemini"}, {"openai", "openrouter"}, Supported }

\* line 16: str.lower on the configured names
lower(name) == IF name = "Gemini" THEN "gemini" ELSE name

KeyAbsentIgnored(p) == FALSE

\* lines 24, 29 and 36: not settings.<provider>_api_key
KeyAbsent(p) == p \notin settings.keys

\* lines 21-43: the message of the ValueError, or nothing
setup_client(p) ==
    CASE p = "openai" /\ KeyAbsent(p) -> <<"OpenAI API key not configured">>
      [] p = "gemini" /\ KeyAbsent(p) -> <<"Gemini API key not configured">>
      [] p = "openrouter" /\ KeyAbsent(p) -> <<"OpenRouter API key not configured">>
      [] p \notin Supported -> <<"Unsupported LLM provider: ", p>>
      [] OTHER -> <<>>

NewClient == [state |-> "new", error |-> <<>>, constructions |-> 0]

\* extractor.py line 19 under main.py line 67: the one construction
Construct ==
    /\ client.state = "new"
    /\ provider' = lower(settings.llm_provider)
    /\ client' = [state |-> IF setup_client(provider') = <<>> THEN "ready" ELSE "failed",
                  error |-> setup_client(provider'),
                  constructions |-> client.constructions + 1]
    /\ UNCHANGED <<time_since_last, pc, sleepLeft, attempts, outcome, lastError,
                   wait_time, dispatchGap, settings, parseVars, batchVars, fieldVars,
                   confVars, repairVars, backendVars, fallbackVars, cleanVars>>

\* the requests of one caller on the client that was built
ClientCall == client.state = "ready" /\ CallAlone(1)
ClientWakeRateLimit == client.state = "ready" /\ WakeRateLimit(1)
ClientWakeBackoff == client.state = "ready" /\ WakeBackoff(1)
ClientFinish == client.state = "ready" /\ Finish(1)
ClientTick == client.state = "ready" /\ pc[1] # "idle" /\ Tick

\* the client of the other specifications: built for the default provider
IdleClient ==
    /\ settings = [llm_provider |-> "gemini", keys |-> {"gemini"}]
    /\ client = [state |-> "ready", error |-> <<>>, constructions |-> 1]

BuiltClient ==
    /\ settings \in [llm_provider : Supported, keys : {Supported}]
    /\ client = [state |-> "ready", error |-> <<>>, constructions |-> 1]

InitClient ==
    /\ settings \in [llm_provider : ProviderSettings, keys : KeySets]
    /\ client = NewClient

-----------------------------------------------------------------------------
(* _create_fallback_structure with the text taken character by character   *)
(* ("_" is a space), as its regular expressions read it.                   *)

Whitespace == {"_", "\n"}

\* the character classes [:\s], [A-Z] and [A-Z\s] of lines 309-311
IsSeparator(c) == c = ":" \/ c \in Whitespace
IsCapital(c) == \E n \in 1..Len(UpperCase) : UpperCase[n] = c
IsNameChar(c) == IsCapital(c) \/ c \in Whitespace

\* lines 308-312: each pattern is a first letter, the rest of the word, then
\* [:\s]+([A-Z][A-Z\s]+)
name_patterns ==
    << [first |-> {"N", "n"}, rest |-> <<"a", "m", "e">>],
       [first |-> {"N"}, rest |-> <<"a", "m", "e">>],
       [first |-> {"S"}, rest |-> <<"t", "u", "d", "e", "n", "t">>] >>

\* a greedy repetition: the index after the longest run of the class from i on
RunEnd(text, i, InClass(_)) ==
    CHOOSE j \in i..(Len(text) + 1) :
        /\ \A k \in i..(j - 1) : InClass(text[k])
        /\ j = Len(text) + 1 \/ ~InClass(text[j])

NoMatch == [ok |-> FALSE, group |-> <<>>]

\* the pattern matched with its first character at i; the classes of two
\* adjacent repetitions share no character where backtracking could matter
MatchAt(pattern, text, i) ==
    LET word == i + Len(pattern.rest)
        sep == RunEnd(text, word + 1, IsSeparator)
        last == RunEnd(text, sep + 1, IsNameChar)
    IN  IF /\ word <= Len(text)
           /\ text[i] \in pattern.first
           /\ SubSeq(text, i + 1, word) = pattern.rest
           /\ sep > word + 1
           /\ sep <= Len(text)
           /\ IsCapital(text[sep])
           /\ last > sep + 1
        THEN [ok |-> TRUE, group |-> SubSeq(text, sep, last - 1)]
        ELSE NoMatch

\* re.search: the match that starts leftmost
re_search(pattern, text) ==
    LET starts == { i \in 1..Len(text) : MatchAt(pattern, text, i).ok }
    IN  IF starts = {} THEN NoMatch
        ELSE MatchAt(pattern, text, CHOOSE i \in starts : \A j \in starts : i <= j)

\* str.strip of a matched group
RECURSIVE StripGroup(_)
StripGroup(text) ==
    IF Len(text) = 0 THEN text
    ELSE IF text[1] \in Whitespace THEN StripGroup(Tail(text))
    ELSE IF text[Len(text)] \in Whitespace THEN StripGroup(SubSeq(text, 1, Len(text) - 1))
    ELSE text

Matching(text) ==
    { p \in 1..Len(name_patterns) : re_search(name_patterns[p], text).ok }

\* a loop that would let a later pattern overwrite the name
LastMatching(text) ==
    CHOOSE p \in Matching(text) : \A q \in Matching(text) : q <= p

\* lines 315-322: the loop stops at the first pattern that matches
FirstMatching(text) ==
    CHOOSE p \in Matching(text) : \A q \in Matching(text) : p <= q

\* lines 298-326; a section is the set of its members
fallback_data(text) ==
    [candidate_details |->
        IF Matching(text) = {} THEN {}
        ELSE {[key |-> "name",
               val |-> Dict(PyStr(StripGroup(
                               re_search(name_patterns[FirstMatching(text)], text).group)),
                            PyFloat(50))]},
     subjects |-> <<>>,
     overall_result |-> {},
     document_info |-> {},
     raw_content |-> text]

Pieces ==
    { <<>>,
      <<"N", "a", "m", "e", ":", "_", "R", "A">>,
      <<"n", "a", "m", "e", "_", ":", "_", "R", "A", "_", "K", "_">>,
      <<"S", "t", "u", "d", "e", "n", "t", ":", "_", "A", "B">>,
      <<"S", "t", "u", "d", "e", "n", "t", "_", "N", "a", "m", "e", ":", "_", "C", "D", "\n", "R", "o">>,
      <<"N", "a", "m", "e", ":", "_", "R">>,
      <<"N", "A", "M", "E", ":", "_", "R", "A">>,
      <<"x", "1", "_">> }

RECURSIVE Joined(_)
Joined(n) ==
    IF n = 0 THEN {<<>>}
    ELSE { t \o q : t \in Joined(n - 1), q \in Pieces }

FallbackTexts == Joined(MaxPieces) \ {<<>>}

NoFallback == [kind |-> "none"]

CreateFallback ==
    /\ fallback_out = NoFallback
    /\ fallback_out' = fallback_data(fallback_content)
    /\ UNCHANGED <<fallback_content, gwVars, parseVars, batchVars, fieldVars, confVars,
                   clientVars, repairVars, backendVars, cleanVars>>

IdleFallback == fallback_content = <<"w">> /\ fallback_out = NoFallback

InitFallback == fallback_content \in FallbackTexts /\ fallback_out = NoFallback

-----------------------------------------------------------------------------
(* _clean_subject_name applied to a name, and then to its own result *)

NameLeads == { <<>>, <<"_">> }

NameWords ==
    { <<"M", "a", "t", "h">>,
      <<"M", "A", "T", "H">>,
      <<"m", "a", "t", "h", "e", "m", "a", "t", "i", "c", "s">>,
      <<"E", "N", "G">>,
      <<"E", "n", "g", "l", "i", "s", "h">>,
      <<"S", "c", "i">>,
      <<"P", "h", "y", "s", "i", "c", "s">>,
      <<"H", "i", "n", "d", "i">>,
      <<"F", "L">>,
      <<"F", "l", "u", "t", "e">>,
      <<"G", "e", "o">>,
      <<"S", "o", "c">>,
      <<"B", "i", "o">>,
      <<"C", "H", "E", "M", "I", "S", "T", "R", "Y">>,
      <<"H", "i", "s", "t">>,
      <<"S", "L">>,
      <<"U", "r", "d", "u">>,
      <<"S", "o", "c", "i", "a", "l", "_", "S", "c", "i", "e", "n", "c", "e">> }

NameTails == { <<>>, <<"_", "_", "I">>, <<"_", "(", "P", "a", "p", "e", "r", "_", "1", ")">>, <<"_">> }

CleanInputs == { l \o w \o t : l \in NameLeads, w \in NameWords, t \in NameTails }

NotCleaned == <<"?">>

CleanOnce ==
    /\ cleaned_once = NotCleaned
    /\ cleaned_once' = _clean_subject_name(name_in)
    /\ UNCHANGED <<name_in, cleaned_twice, gwVars, parseVars, batchVars, fieldVars,
                   confVars, clientVars, repairVars, backendVars, fallbackVars>>

\* a second repair of the same list hands the stored name to it again
CleanAgain ==
    /\ cleaned_once # NotCleaned
    /\ cleaned_twice = NotCleaned
    /\ cleaned_twice' = _clean_subject_name(cleaned_once)
    /\ UNCHANGED <<name_in, cleaned_once, gwVars, parseVars, batchVars, fieldVars,
                   confVars, clientVars, repairVars, backendVars, fallbackVars>>

IdleClean ==
    /\ name_in = <<"H", "i", "n", "d", "i">>
    /\ cleaned_once = NotCleaned
    /\ cleaned_twice = NotCleaned

InitClean ==
    /\ name_in \in CleanInputs
    /\ cleaned_once = NotCleaned
    /\ cleaned_twice = NotCleaned

-----------------------------------------------------------------------------
(* Specifications *)

Init ==
    /\ InitGateway /\ IdleParse /\ IdleBatch /\ IdleField /\ IdleConf
    /\ BuiltClient /\ settings.llm_provider = provider /\ IdleRepair /\ IdleBackend /\ IdleFallback /\ IdleClean

Next ==
    \/ \E c \in Calls : Call(c)
    \/ \E c \in Calls : WakeRateLimit(c)
    \/ \E c \in Calls : WakeBackoff(c)
    \/ \E c \in Calls : Finish(c)
    \/ Tick

\* requests that may overlap on the shared client
Spec == Init /\ [][Next]_vars

NextSeq ==
    \/ \E c \in Calls : CallAlone(c)
    \/ \E c \in Calls : WakeRateLimit(c)
    \/ \E c \in Calls : WakeBackoff(c)
    \/ \E c \in Calls : Finish(c)
    \/ Tick

\* calls issued one after another
SpecSeq == Init /\ [][NextSeq]_vars

InitParse ==
    /\ IdleGateway /\ IdleBatch /\ IdleField /\ IdleConf /\ IdleClient /\ IdleRepair /\ IdleBackend /\ IdleFallback /\ IdleClean
    /\ content \in Contents /\ parsed = NotParsed

NextParse == ParseResponse

\* _parse_llm_response applied to every text of Contents
SpecParse == InitParse /\ [][NextParse]_vars

InitBatchSpec ==
    IdleGateway /\ IdleParse /\ IdleField /\ IdleConf /\ IdleClient /\ IdleRepair /\ IdleBackend /\ IdleFallback /\ IdleClean /\ InitBatch

NextBatch ==
    \/ ValidateBatch
    \/ UploadNext
    \/ StartExtract
    \/ ProviderStage
    \/ ParseStage
    \/ RepairStage
    \/ StructureStage
    \/ PostStage
    \/ BatchReturn
    \/ Respond

\* one /extract/batch request from validation to its response
SpecBatch == InitBatchSpec /\ [][NextBatch]_vars

InitField ==
    /\ IdleGateway /\ IdleParse /\ IdleBatch /\ IdleConf /\ IdleClient /\ IdleRepair /\ IdleBackend /\ IdleFallback /\ IdleClean
    /\ field_data \in FieldInputs
    /\ field = NoField

NextFieldSpec == CreateField \/ NextField

\* _create_extracted_field applied to one raw field after another
SpecField == InitField /\ [][NextFieldSpec]_vars

InitConfSpec ==
    IdleGateway /\ IdleParse /\ IdleBatch /\ IdleField /\ IdleClient /\ IdleRepair /\ IdleBackend /\ IdleFallback /\ IdleClean /\ InitConf

NextConf == StructureDoc \/ CalibrateDoc \/ ConsistencyDoc

\* one raw mapping through structuring, calibration and the consistency checks
SpecConf == InitConfSpec /\ [][NextConf]_vars

\* before the construction no backend is selected and nothing was called
InitClientSpec ==
    /\ InitClient
    /\ provider = "none"
    /\ time_since_last = MinRequestInterval
    /\ pc = [c \in Calls |-> "idle"]
    /\ sleepLeft = [c \in Calls |-> 0]
    /\ attempts = [c \in Calls |-> 0]
    /\ outcome = [c \in Calls |-> NoOutcome]
    /\ lastError = [c \in Calls |-> NoError]
    /\ wait_time = [c \in Calls |-> 0]
    /\ dispatchGap = MinRequestInterval
    /\ IdleParse /\ IdleBatch /\ IdleField /\ IdleConf /\ IdleRepair /\ IdleBackend /\ IdleFallback /\ IdleClean

NextClient ==
    \/ Construct
    \/ ClientCall
    \/ ClientWakeRateLimit
    \/ ClientWakeBackoff
    \/ ClientFinish
    \/ ClientTick

\* the construction of the client and the calls of one caller after it
SpecClient == InitClientSpec /\ [][NextClient]_vars

InitRepairSpec ==
    /\ IdleGateway /\ IdleParse /\ IdleBatch /\ IdleField /\ IdleConf
    /\ settings = [llm_provider |-> "gemini", keys |-> {"gemini"}]
    /\ client = [state |-> "ready", error |-> <<>>, constructions |-> 1]
    /\ IdleBackend /\ IdleFallback /\ IdleClean
    /\ InitRepair

NextRepair == Repair

\* _validate_and_fix_subjects applied to every mapping of RepairInputs
SpecRepair == InitRepairSpec /\ [][NextRepair]_vars

InitBackendSpec ==
    /\ IdleGateway /\ IdleParse /\ IdleBatch /\ IdleField /\ IdleConf /\ IdleClient
    /\ IdleRepair /\ IdleFallback /\ IdleClean /\ InitBackend

NextBackend == RunBackend

\* one run of one backend variant, for every way its models can answer
SpecBackend == InitBackendSpec /\ [][NextBackend]_vars

InitFallbackSpec ==
    /\ IdleGateway /\ IdleParse /\ IdleBatch /\ IdleField /\ IdleConf /\ IdleClient
    /\ IdleRepair /\ IdleBackend /\ IdleClean /\ InitFallback

NextFallback == CreateFallback

\* _create_fallback_structure applied to every text of FallbackTexts
SpecFallback == InitFallbackSpec /\ [][NextFallback]_vars

InitCleanSpec ==
    /\ IdleGateway /\ IdleParse /\ IdleBatch /\ IdleField /\ IdleConf /\ IdleClient
    /\ IdleRepair /\ IdleBackend /\ IdleFallback /\ InitClean

NextClean == CleanOnce \/ CleanAgain

\* _clean_subject_name applied twice over to every name of CleanInputs
SpecClean == InitCleanSpec /\ [][NextClean]_vars

-----------------------------------------------------------------------------
(* Claims about the provider gateway *)

\* C1: with calls in flight concurrently, any two backend dispatches are at
\* least min_request_interval apart (the gap between consecutive stamps of
\* last_request_time is never shorter than the interval).
C1_ConcurrentDispatchesSpaced == dispatchGap >= MinRequestInterval

\* C2: for calls issued one after another, a call that reads a difference
\* d < min_request_interval is suspended for exactly the remainder, a call that
\* reads the interval or more is dispatched in the same step, and every stamp
\* comes at least the interval after the previous one.
C2_SequentialSpacing ==
    [][\A c \in Calls :
         /\ (pc[c] = "idle" /\ pc'[c] # "idle") =>
               IF time_since_last < MinRequestInterval
               THEN /\ pc'[c] = "rate_wait"
                    /\ sleepLeft'[c] = MinRequestInterval - time_since_last
                    /\ attempts'[c] = attempts[c]
               ELSE /\ attempts'[c] = attempts[c] + 1
                    /\ time_since_last' = 0
         /\ (attempts'[c] > attempts[c]) => time_since_last >= MinRequestInterval
      ]_vars

\* a call that was made to wait has been dispatched, a full interval after the previous stamp
C2_Witness ==
    \E c \in Calls :
        /\ pc[c] = "returned"
        /\ wait_time[c] > 0
        /\ time_since_last = 0
        /\ dispatchGap >= MinRequestInterval

\* C3: a top-level call makes at most two backend attempts: a second quota
\* error in a row is surfaced instead of starting another back-off.
C3_AtMostOneRetry == \A c \in Calls : attempts[c] <= 2

\* C4: every failure that leaves extract_from_image is one generic exception
\* whose message is "Failed to extract data: " followed by the message of the
\* exception that caused it, on the first attempt and on a retry alike.
C4_FailuresWrapped ==
    \A c \in Calls :
        /\ pc[c] = "raised" =>
              outcome[c] = Failed(Exc("Exception",
                                      <<"Failed to extract data: ">> \o lastError[c].msg))
        /\ pc[c] = "returned" => outcome[c].kind = "ok"

\* a failure raised on the retry that followed a quota back-off
C4_Witness ==
    \E c \in Calls : pc[c] = "raised" /\ attempts[c] = 2 /\ lastError[c].type # "Exception"

-----------------------------------------------------------------------------
(* Claims about response recovery *)

\* C5: _parse_llm_response returns a mapping for every non-empty content and
\* raises only when the content is empty.
C5_AlwaysMapping ==
    parsed # NotParsed =>
        /\ content # <<>> => (parsed.kind = "fallback" \/ (parsed.kind = "json" /\ IsDict(parsed.val)))
        /\ parsed.kind = "raise" => content = <<>>

\* C6: a content that is a JSON object, or holds one between its first "{" and
\* its last "}", comes back as exactly that object, and the fallback structure
\* is produced only when none of the three strategies can parse the text.
C6_ExactObject ==
    parsed # NotParsed =>
        /\ (json_loads(content).ok /\ IsDict(json_loads(content).val)) =>
              parsed = [kind |-> "json", val |-> json_loads(content).val]
        /\ (BoundaryParse(content).ok /\ IsDict(BoundaryParse(content).val)) =>
              parsed = [kind |-> "json", val |-> BoundaryParse(content).val]
        /\ parsed.kind = "fallback" =>
              /\ ~json_loads(content).ok
              /\ ~BoundaryParse(content).ok
              /\ ~BoundaryParse(CleanFences(content)).ok

-----------------------------------------------------------------------------
(* Claims about extract_data, extract_batch_data and the batch handler *)

BatchLoopOver == hpc \in {"respond", "done"} /\ response.kind # "http_error"

\* C7: extract_batch_data takes its inputs one after another and returns one
\* record per input, in input order, each with that input's filename; a record
\* has success with data and metadata iff extract_data returned for that file,
\* and the error text otherwise; a failure never stops the later files.
C7_OneRecordPerInput ==
    /\ Len(results) = Len(runs)
    /\ Len(runs) <= Len(batch_data)
    /\ epc # "idle" => Len(runs) < Len(batch_data)
    /\ BatchLoopOver => Len(results) = Len(batch_data)
    /\ \A i \in 1..Len(runs) : runs[i].filename = batch_data[i]
    /\ \A i \in 1..Len(runs) : i <= Len(results) =>
          /\ results[i].filename = batch_data[i]
          /\ results[i].success = runs[i].returned
          /\ results[i].success =>
                /\ results[i].data = runs[i].data
                /\ results[i].metadata = get_extraction_metadata(batch_data[i])
          /\ ~results[i].success =>
                /\ results[i].error = runs[i].error
                /\ results[i].error # <<>>

\* a batch that went on after a failed file and extracted a later one
C7_Witness ==
    /\ hpc = "done" /\ response.kind = "batch"
    /\ \E i, j \in 1..Len(results) :
          i < j /\ ~results[i].success /\ results[j].success

\* C8: in the handler a failure confined to one file, in upload processing or
\* in extraction, never aborts the batch: the response reports every file, in
\* results or in failed_files, and failed_files keeps the input order.
C8_BatchNeverAborts ==
    (hpc = "done" /\ Len(files) > 0 /\ \A i \in 1..Len(files) : files[i].valid) =>
        /\ response.kind = "batch"
        /\ Len(response.results) + Len(response.failed_files) = response.total_processed
        /\ response.total_processed = Len(files)
        /\ \A i, j \in 1..Len(response.failed_files) :
              i < j => response.failed_files[i].filename < response.failed_files[j].filename

StagesInOrder(log) ==
    /\ Len(log) <= Len(StageOrder)
    /\ \A i \in 1..Len(log) :
          /\ log[i].stage = StageOrder[i]
          /\ i < Len(log) => log[i].ok

Complete(data) ==
    /\ data.kind = "MarksheetData"
    /\ data.candidate_details = "CandidateDetails"
    /\ data.subjects = "list"
    /\ data.overall_result = "OverallResult"
    /\ data.document_info = "DocumentInfo"

\* C9: extract_data runs provider call, parsing, subject repair, structuring
\* and confidence post-processing in this order, each at most once; it returns
\* a complete MarksheetData exactly when all five succeeded, and otherwise
\* raises with no data, the failed stage (provider call, parsing or
\* structuring) being the last one run.
C9_StagesInOrder ==
    /\ StagesInOrder(stages)
    /\ \A i \in 1..Len(stages) : stages[i].ok
    /\ \A i \in 1..Len(runs) :
          LET r == runs[i]
              last == r.stages[Len(r.stages)]
          IN  /\ Len(r.stages) > 0
              /\ StagesInOrder(r.stages)
              /\ r.returned <=> (Len(r.stages) = Len(StageOrder) /\ last.ok)
              /\ r.returned => Complete(r.data)
              /\ ~r.returned =>
                    /\ r.data = NoData
                    /\ ~last.ok
                    /\ last.stage \in {"provider", "parse", "structure"}

\* one request returned its data and another failed in structuring
C9_Witness ==
    /\ \E i \in 1..Len(runs) : runs[i].returned
    /\ \E i \in 1..Len(runs) :
          ~runs[i].returned /\ Len(runs[i].stages) = 4

-----------------------------------------------------------------------------
(* Claims about _create_extracted_field *)

\* C10: every ExtractedField that _create_extracted_field builds has a null
\* value exactly when its confidence is 0.0, whatever the raw field was.
C10_NullIffZeroConfidence ==
    field.kind = "field" => (field.value = PyNone <=> field.confidence = 0)

\* C13: the extraction_metadata of a request names the provider and the
\* model that produced that request's content (the fallback model when one was
\* used), with the fixed extraction version and the confidence-method
\* descriptor.
C13_MetadataNamesModelUsed ==
    \A i \in 1..Len(runs) : (i <= Len(results) /\ results[i].success) =>
        /\ results[i].metadata.llm_provider = runs[i].provider
        /\ results[i].metadata.model_info.model = runs[i].model
        /\ results[i].metadata.extraction_version = "1.1.0"
        /\ results[i].metadata.confidence_method = get_method_info

\* C14: the construction fails at once with a configuration error when the
\* configured provider is none of the three backends or the key of the
\* selected provider is absent; then no provider call is ever made and the
\* construction is not tried again; a client that was built keeps its backend
\* for every call.
C14_ConstructionFailsFast ==
    LET p == lower(settings.llm_provider)
        bad == p \notin Supported \/ p \notin settings.keys
    IN  /\ client.constructions <= 1
        /\ client.state = "new" => client.constructions = 0
        /\ client.state # "new" => (client.state = "failed" <=> bad)
        /\ client.state = "failed" <=> client.error # <<>>
        /\ client.state # "ready" =>
              \A c \in Calls : pc[c] = "idle" /\ attempts[c] = 0 /\ outcome[c] = NoOutcome
        /\ client.state = "ready" =>
              /\ provider = p
              /\ \A c \in Calls : outcome[c].kind = "ok" => outcome[c].provider = p

\* the selected provider has no key: the construction was refused
C14_Witness ==
    /\ client.state = "failed"
    /\ client.constructions = 1
    /\ settings.llm_provider = "openai"
    /\ client.error = <<"OpenAI API key not configured">>

-----------------------------------------------------------------------------
(* Claims about calibration and the consistency checks *)

AllFields(data) ==
    {data.candidate_details[f] : f \in CandidateFields}
      \cup {data.overall_result[f] : f \in ResultFields}
      \cup {data.document_info[f] : f \in DocumentFields}
      \cup UNION {{data.subjects[i][f] : f \in SubjectFields} : i \in 1..Len(data.subjects)}

AtLeastThreshold(data) ==
    \A fld \in AllFields(data) : fld.value # PyNone => fld.confidence >= min_threshold

\* C11: after calibrate_confidence, and still after the consistency checks,
\* every field with a non-null value has confidence >= min_threshold, in all
\* four sections and for every subject.
C11_NonNullAtLeastThreshold ==
    /\ ppc \in {"consistency", "returned"} => AtLeastThreshold(calibrated)
    /\ ppc = "returned" => AtLeastThreshold(mdata)

InRange(data) ==
    \A fld \in AllFields(data) : fld.confidence >= 0 /\ fld.confidence <= One

InputValue(raw) ==
    IF raw.t = "dict" THEN Get(raw.value, PyNone) ELSE Scalar(raw.t, raw.s, raw.n)

\* the value is null or a sentinel text, or the field holds it stringified
\* and trimmed
Reproduced(raw, fld) ==
    LET v == InputValue(raw)
    IN  \/ v = PyNone
        \/ Lower(Strip(Str(v))) \in Sentinels
        \/ fld.value = PyStr(Strip(Str(v)))

SectionReproduced(rawsec, sec) == \A f \in DOMAIN rawsec : Reproduced(rawsec[f], sec[f])

SameValues(a, b) ==
    /\ \A f \in CandidateFields : a.candidate_details[f].value = b.candidate_details[f].value
    /\ \A f \in ResultFields : a.overall_result[f].value = b.overall_result[f].value
    /\ \A f \in DocumentFields : a.document_info[f].value = b.document_info[f].value
    /\ Len(a.subjects) = Len(b.subjects)
    /\ \A i \in 1..Len(a.subjects) : \A f \in SubjectFields :
          a.subjects[i][f].value = b.subjects[i][f].value

\* C15: structuring, calibration and the consistency checks reproduce every
\* value of the response, stringified and trimmed, and turn no non-null value
\* into null; calibration and the consistency checks change no value.
C15_ValuesReproduced ==
    ppc = "returned" =>
        LET dicts == SelectSeq(raw_fields.subjects, LAMBDA e : e.isdict)
        IN  /\ SectionReproduced(raw_fields.candidate_details, mdata.candidate_details)
            /\ SectionReproduced(raw_fields.overall_result, mdata.overall_result)
            /\ SectionReproduced(raw_fields.document_info, mdata.document_info)
            /\ Len(mdata.subjects) = Len(dicts)
            /\ \A i \in 1..Len(dicts) :
                  SectionReproduced(dicts[i].fields, mdata.subjects[i])
            /\ SameValues(structured, calibrated)
            /\ SameValues(calibrated, mdata)

\* C16: an error inside calibration or the consistency checks never fails
\* the request: extract_data still returns, and the step that raised leaves
\* the data as it was before that step.
C16_PostProcessingNeverFails ==
    /\ ppc = "raised" => StructureRaises(raw_fields)
    /\ (ppc = "returned" /\ "consistency" \in swallowed) => mdata = calibrated
    /\ swallowed # {} => ppc = "returned"

\* a stated total of 0 divided by zero after calibration had changed the data
C16_Witness ==
    /\ ppc = "returned"
    /\ "consistency" \in swallowed
    /\ Len(mdata.subjects) > 0
    /\ calibrated # structured
    /\ mdata = calibrated

-----------------------------------------------------------------------------
(* Claims about subject repair *)

DictEntries(items) == SelectSeq(items, LAMBDA e : e.isdict)

\* C17: when subjects is a list, the repair returns a subjects list holding
\* exactly the dict entries of the input in their order (the others dropped,
\* nothing added, duplicated or reordered) and changes no key of a subject
\* other than subject_name.
C17_DictEntriesInOrder ==
    (repair_out # NotRepaired /\ repair_in.kind = "dict" /\ repair_in.subjects.t = "list") =>
        LET dicts == DictEntries(repair_in.subjects.items)
            out == repair_out.data.subjects
        IN  /\ out.t = "list"
            /\ out.lead = repair_in.subjects.lead
            /\ Len(out.items) = Len(dicts)
            /\ \A i \in 1..Len(dicts) : i <= Len(out.items) =>
                  /\ out.items[i].isdict
                  /\ out.items[i].max_marks = dicts[i].max_marks
                  /\ out.items[i].grade = dicts[i].grade
                  /\ out.items[i].rest = dicts[i].rest

\* C18: the repair never raises, whatever the raw mapping, and returns it
\* with every top-level section other than subjects unchanged.
C18_RepairNeverRaises ==
    repair_out # NotRepaired =>
        /\ repair_out.kind = "returned"
        /\ repair_out.data.kind = repair_in.kind
        /\ repair_out.data.others = repair_in.others
        /\ repair_in.subjects.t \notin {"absent", "list"} =>
              repair_out.data.subjects = repair_in.subjects

\* a subject_name value that is a number made .lower() fail after an earlier
\* subject had been renamed
C18_Witness ==
    /\ repair_out.kind = "returned"
    /\ repair_in.kind = "dict"
    /\ Len(repair_in.subjects.items) = 2
    /\ repair_in.subjects.items[2].subject_name = Dict(PyInt(5), PyFloat(90))
    /\ repair_out.data.subjects.items[1] # repair_in.subjects.items[1]
    /\ repair_out.data.subjects.items[2] = repair_in.subjects.items[2]

-----------------------------------------------------------------------------
(* Claims about the backend variants *)

Flash == "gemini-1.5-flash"
Pro == "gemini-1.5-pro"

GeminiRan == backend = "gemini" /\ backend_result # NotDispatched

TimesCalled(model) ==
    Cardinality({ i \in 1..Len(backend_result.calls) : backend_result.calls[i] = model })

PrimaryBlockedOrShort ==
    \/ model_answers[1] = Blocked
    \/ model_answers[1].kind = "text" /\ model_answers[1].len < 50

\* C19: in the gemini variant the Pro model is called when, and only when, the
\* Flash model gave a safety-blocked result or fewer than 50 characters; any
\* other failure of the Flash model is raised at once, the Pro model not
\* called.  A blocked or short Flash result is never returned, the Pro model
\* is called at most once, and the model named in the result is the one
\* whose text is returned.
C19_SecondaryOnlyWhenBlockedOrShort ==
    GeminiRan =>
        /\ TimesCalled(Pro) > 0 <=> PrimaryBlockedOrShort
        /\ model_answers[1].kind = "raise" =>
               /\ backend_result.out.kind = "error"
               /\ backend_result.calls = <<Flash>>
        /\ PrimaryBlockedOrShort =>
               ~(backend_result.out.kind = "ok" /\ backend_result.out.model = Flash)
        /\ TimesCalled(Pro) <= 1
        /\ backend_result.out.kind = "ok" =>
               \/ /\ backend_result.out.model = Flash
                  /\ model_answers[1].kind = "text"
                  /\ backend_result.out.content = model_answers[1].len
               \/ /\ backend_result.out.model = Pro
                  /\ model_answers[2].kind = "text"
                  /\ backend_result.out.content = model_answers[2].len

OpenrouterRan == backend = "openrouter" /\ backend_result # NotDispatched

LongEnough(a) == a.kind = "text" /\ a.len > 100

Winners == { i \in 1..Len(models_to_try) : LongEnough(model_answers[i]) }

First(S) == CHOOSE i \in S : \A j \in S : i <= j

\* the failure of the last model of the list, as the loop records it
LastModelError ==
    LET n == Len(models_to_try)
    IN  IF model_answers[n].kind = "raise"
        THEN model_answers[n].err
        ELSE Exc("Exception", <<"Response too short from ", models_to_try[n]>>)

\* C20: in the openrouter variant the models are called one at a time in the
\* order of the list; the first one that gives more than 100 characters ends
\* the search and is the model named in the result, no model after it is
\* called, and when every model fails the error raised is that of the last
\* model of the list.
C20_ModelsTriedInOrder ==
    OpenrouterRan =>
        IF Winners # {}
        THEN /\ backend_result.calls = SubSeq(models_to_try, 1, First(Winners))
             /\ backend_result.out =
                    Ok(model_answers[First(Winners)].len, "openrouter",
                       models_to_try[First(Winners)])
        ELSE /\ backend_result.calls = models_to_try
             /\ backend_result.out = Failed(LastModelError)

\* two models fail in different ways, the third succeeds and the fourth,
\* which would have succeeded too, is never called
C20_Witness ==
    /\ OpenrouterRan
    /\ model_answers[1].kind = "raise"
    /\ model_answers[2] = Text(100)
    /\ LongEnough(model_answers[3])
    /\ LongEnough(model_answers[4])
    /\ backend_result.out.kind = "ok"
    /\ backend_result.out.model = "openai/gpt-4o-mini"
    /\ Len(backend_result.calls) = 3

-----------------------------------------------------------------------------
(* Claims about the fallback structure *)

Capitals ==
    {"A", "B", "C", "D", "E", "F", "G", "H", "I", "J", "K", "L", "M",
     "N", "O", "P", "Q", "R", "S", "T", "U", "V", "W", "X", "Y", "Z"}

Blanks == {"_", "\n"}

\* the words each name pattern begins with
PatternWords ==
    << {<<"N", "a", "m", "e">>, <<"n", "a", "m", "e">>}, {<<"N", "a", "m", "e">>}, {<<"S", "t", "u", "d", "e", "n", "t">>} >>

\* the end of the longest run of characters of the set S that starts at i
\* (i - 1 when there is none)
LastOfRun(t, i, S) ==
    CHOOSE k \in (i - 1)..Len(t) :
        /\ \A x \in i..k : t[x] \in S
        /\ k = Len(t) \/ t[k + 1] \notin S

\* word w at i, then one or more separators, then a capital followed by one
\* or more capitals or blanks
IsNameMatch(t, w, i) ==
    LET e == i + Len(w)
        j == LastOfRun(t, e, Blanks \cup {":"}) + 1
    IN  /\ e - 1 <= Len(t)
        /\ SubSeq(t, i, e - 1) = w
        /\ j > e
        /\ j < Len(t)
        /\ t[j] \in Capitals
        /\ t[j + 1] \in Capitals \cup Blanks

NameMatches(t, p) ==
    { i \in 1..Len(t) : \E w \in PatternWords[p] : IsNameMatch(t, w, i) }

\* the group of the leftmost match of pattern p, without the blanks around it
TrimmedGroup(t, p) ==
    LET i == CHOOSE x \in NameMatches(t, p) : \A y \in NameMatches(t, p) : x <= y
        w == CHOOSE x \in PatternWords[p] : IsNameMatch(t, x, i)
        j == LastOfRun(t, i + Len(w), Blanks \cup {":"}) + 1
        k == LastOfRun(t, j, Capitals \cup Blanks)
        b == CHOOSE x \in j..k :
                 t[x] \notin Blanks /\ \A y \in (x + 1)..k : t[y] \in Blanks
    IN  SubSeq(t, j, b)

MatchingPatterns(t) == { p \in 1..3 : NameMatches(t, p) # {} }

\* C21: the fallback mapping has exactly the sections candidate_details,
\* subjects (an empty list), overall_result and document_info plus raw_content,
\* the original text character for character; candidate_details.name is set,
\* with confidence 0.5, iff one of the name patterns matches, from the first
\* pattern that does, and no other field is populated.
C21_FallbackSkeleton ==
    fallback_out # NoFallback =>
        /\ DOMAIN fallback_out =
               {"candidate_details", "subjects", "overall_result", "document_info",
                "raw_content"}
        /\ fallback_out.raw_content = fallback_content
        /\ fallback_out.subjects = <<>>
        /\ fallback_out.overall_result = {}
        /\ fallback_out.document_info = {}
        /\ IF MatchingPatterns(fallback_content) = {}
           THEN fallback_out.candidate_details = {}
           ELSE LET p == CHOOSE x \in MatchingPatterns(fallback_content) :
                             \A y \in MatchingPatterns(fallback_content) : x <= y
                IN  fallback_out.candidate_details =
                       {[key |-> "name",
                         val |-> [t |-> "dict", s |-> <<>>, n |-> 0,
                                  value |-> [t |-> "str", n |-> 0,
                                             s |-> TrimmedGroup(fallback_content, p)],
                                  confidence |-> [t |-> "float", s |-> <<>>, n |-> 50]]]}

\* the third pattern matches first in the text and the first pattern later:
\* the name is that of the first pattern, its trailing space removed
C21_Witness ==
    /\ fallback_out # NoFallback
    /\ fallback_content = <<"S", "t", "u", "d", "e", "n", "t", ":", "_", "A", "B">> \o <<"n", "a", "m", "e", "_", ":", "_", "R", "A", "_", "K", "_">>
    /\ \E e \in fallback_out.candidate_details : e.val.value.s = <<"R", "A", "_", "K">>

-----------------------------------------------------------------------------
(* Claims about subject inference *)

HundredMarkNames ==
    << <<"M", "A", "T", "H", "E", "M", "A", "T", "I", "C", "S">>,
       <<"E", "N", "G", "L", "I", "S", "H">>,
       <<"S", "C", "I", "E", "N", "C", "E">>,
       <<"S", "O", "C", "I", "A", "L", "_", "S", "C", "I", "E", "N", "C", "E">>,
       <<"P", "H", "Y", "S", "I", "C", "S">>,
       <<"C", "H", "E", "M", "I", "S", "T", "R", "Y">>,
       <<"B", "I", "O", "L", "O", "G", "Y">>,
       <<"H", "I", "S", "T", "O", "R", "Y">>,
       <<"G", "E", "O", "G", "R", "A", "P", "H", "Y">> >>

BoardGradeNames ==
    << <<"H", "I", "N", "D", "I">>,
       <<"E", "N", "G", "L", "I", "S", "H">>,
       <<"M", "A", "T", "H", "E", "M", "A", "T", "I", "C", "S">>,
       <<"S", "C", "I", "E", "N", "C", "E">>,
       <<"S", "O", "C", "I", "A", "L", "_", "S", "C", "I", "E", "N", "C", "E">> >>

UniversityGradeNames ==
    << <<"E", "n", "v", "i", "r", "o", "n", "m", "e", "n", "t", "a", "l", "_", "S", "t", "u", "d", "i", "e", "s">>,
       <<"L", "i", "t", "e", "r", "a", "t", "u", "r", "e">>,
       <<"C", "o", "r", "e", "_", "S", "u", "b", "j", "e", "c", "t">>,
       <<"E", "l", "e", "c", "t", "i", "v", "e">> >>

MasterNames ==
    << <<"M", "A", "T", "H", "E", "M", "A", "T", "I", "C", "S">>,
       <<"E", "N", "G", "L", "I", "S", "H">>,
       <<"H", "I", "N", "D", "I">>,
       <<"S", "C", "I", "E", "N", "C", "E">>,
       <<"S", "O", "C", "I", "A", "L", "_", "S", "C", "I", "E", "N", "C", "E">>,
       <<"P", "H", "Y", "S", "I", "C", "S">>,
       <<"C", "H", "E", "M", "I", "S", "T", "R", "Y">>,
       <<"B", "I", "O", "L", "O", "G", "Y">>,
       <<"H", "I", "S", "T", "O", "R", "Y">>,
       <<"G", "E", "O", "G", "R", "A", "P", "H", "Y">>,
       <<"F", "I", "R", "S", "T", "_", "L", "A", "N", "G", "U", "A", "G", "E">>,
       <<"S", "E", "C", "O", "N", "D", "_", "L", "A", "N", "G", "U", "A", "G", "E">>,
       <<"P", "H", "Y", "S", "I", "C", "A", "L", "_", "S", "C", "I", "E", "N", "C", "E">>,
       <<"L", "I", "F", "E", "_", "S", "C", "I", "E", "N", "C", "E">>,
       <<"E", "n", "v", "i", "r", "o", "n", "m", "e", "n", "t", "a", "l", "_", "S", "t", "u", "d", "i", "e", "s">>,
       <<"I", "n", "d", "i", "a", "n", "_", "W", "r", "i", "t", "i", "n", "g", "_", "i", "n", "_", "E", "n", "g", "l", "i", "s", "h">>,
       <<"B", "r", "i", "t", "i", "s", "h", "_", "P", "o", "e", "t", "r", "y">>,
       <<"F", "e", "m", "i", "n", "i", "s", "m", "_", "T", "h", "e", "o", "r", "y">>,
       <<"D", "R", "A", "W", "I", "N", "G">>,
       <<"C", "O", "M", "P", "U", "T", "E", "R", "_", "S", "C", "I", "E", "N", "C", "E">>,
       <<"E", "C", "O", "N", "O", "M", "I", "C", "S">> >>

RepairedList ==
    /\ repair_out # NotRepaired
    /\ repair_in.kind = "dict"
    /\ repair_in.subjects.t = "list"

\* the position of input entry k in the input list, counted from 0
IndexOf(k) == repair_in.subjects.lead + k - 1

\* the entry the repair made of input entry k: the list returned holds the
\* dict entries only, or every entry when the repair stopped early
AfterRepair(k) ==
    LET in == repair_in.subjects.items
        out == repair_out.data.subjects.items
    IN  IF Len(out) = Len(in) THEN out[k]
        ELSE out[Cardinality({ x \in 1..k : in[x].isdict })]

ValueOf(f) == IF f.t = "dict" THEN f.value ELSE [t |-> f.t, s |-> f.s, n |-> f.n]

\* the name is missing, null, empty or a sentinel
Unnamed(e) ==
    LET v == ValueOf(e.subject_name)
    IN  \/ v.t \in {"missing", "none"}
        \/ v.t = "str" /\ Lower(v.s) \in {<<>>, <<"n", "/", "a">>, <<"n", "u", "l", "l">>, <<"n", "o", "n", "e">>}

\* max_marks as a whole number, -1 when it is none
MarksOf(e) ==
    LET v == ValueOf(e.max_marks)
    IN  CASE v.t = "int" -> v.n
          [] v.t = "str" /\ IsDigits(v.s) -> DigitsValue(v.s)
          [] OTHER -> 0 - 1

GradeOf(e) ==
    LET v == ValueOf(e.grade)
    IN  IF v.t = "str" THEN Upper(v.s) ELSE <<>>

NoName == <<>>

MagnitudeName(e, i) ==
    CASE MarksOf(e) = 200 -> <<"F", "I", "R", "S", "T", "_", "L", "A", "N", "G", "U", "A", "G", "E">>
      [] MarksOf(e) = 100 /\ i < 9 -> HundredMarkNames[i + 1]
      [] MarksOf(e) = 90 -> <<"W", "R", "I", "T", "T", "E", "N", "_", "C", "O", "M", "P", "O", "N", "E", "N", "T", "_">> \o Digits(i + 1)
      [] MarksOf(e) \in {10, 20} -> <<"O", "R", "A", "L", "_", "C", "O", "M", "P", "O", "N", "E", "N", "T", "_">> \o Digits(i + 1)
      [] OTHER -> NoName

GradeName(e, i) ==
    CASE GradeOf(e) \in {<<"A", "1">>, <<"A", "2">>, <<"B", "1">>, <<"B", "2">>} /\ i < 5 -> BoardGradeNames[i + 1]
      [] GradeOf(e) \in {<<"A", "+">>, <<"A">>, <<"B", "+">>, <<"B">>} /\ i < 4 -> UniversityGradeNames[i + 1]
      [] OTHER -> NoName

MasterName(i) == IF i < 21 THEN MasterNames[i + 1] ELSE NoName

\* the repair gave entry k an inferred name
Inferred(k) ==
    /\ repair_in.subjects.items[k].isdict
    /\ Unnamed(repair_in.subjects.items[k])
    /\ AfterRepair(k).subject_name.t = "dict"
    /\ AfterRepair(k).subject_name.confidence = PyFloat(60)

\* C22: the name inferred for a subject without a name is that of the first
\* rule that can name it, in the order max_marks magnitude (200; 100 by
\* position; 90; 10 or 20), grade pattern by position, master list by
\* position: a grade-based name only when no magnitude rule names it, a
\* master-list name only when neither does; the position is the index of the
\* subject in the input list.
C22_InferencePriority ==
    RepairedList =>
        \A k \in 1..Len(repair_in.subjects.items) : Inferred(k) =>
            LET e == repair_in.subjects.items[k]
                name == AfterRepair(k).subject_name.value.s
            IN  /\ AfterRepair(k).subject_name.value.t = "str"
                /\ name = IF MagnitudeName(e, IndexOf(k)) # NoName
                             THEN MagnitudeName(e, IndexOf(k))
                          ELSE IF GradeName(e, IndexOf(k)) # NoName
                             THEN GradeName(e, IndexOf(k))
                          ELSE MasterName(IndexOf(k))
                /\ name # NoName

\* at index 9 a subject with 200 marks and a board grade is named by its
\* marks; at index 10 one with 100 marks and a board grade, beyond the
\* 100-mark list and the grade lists, is named by the master list
C22_Witness ==
    /\ RepairedList
    /\ repair_in.subjects.lead = 9
    /\ Len(repair_in.subjects.items) = 2
    /\ MarksOf(repair_in.subjects.items[1]) = 200
    /\ GradeOf(repair_in.subjects.items[1]) = <<"A", "1">>
    /\ MarksOf(repair_in.subjects.items[2]) = 100
    /\ GradeOf(repair_in.subjects.items[2]) = <<"A", "1">>
    /\ Inferred(1) /\ Inferred(2)
    /\ AfterRepair(1).subject_name.value.s = <<"F", "I", "R", "S", "T", "_", "L", "A", "N", "G", "U", "A", "G", "E">>
    /\ AfterRepair(2).subject_name.value.s = MasterNames[11]

\* the repair reached entry k, which had no name, and renamed it
Renamed(k) ==
    /\ repair_in.subjects.items[k].isdict
    /\ Unnamed(repair_in.subjects.items[k])
    /\ AfterRepair(k) # repair_in.subjects.items[k]

Nameable(e, i) ==
    MagnitudeName(e, i) # NoName \/ GradeName(e, i) # NoName \/ MasterName(i) # NoName

\* C23: a subject named by any inference rule leaves the repair with
\* confidence 0.6; the literal Subject {index+1} with confidence 0.3 is used
\* exactly when no magnitude, grade or positional rule can name the subject
\* at its position; a subject without a name at index 0 with max_marks 100
\* gets the first name of the 100-mark list.
C23_LiteralOnlyBeyondLists ==
    RepairedList =>
        \A k \in 1..Len(repair_in.subjects.items) : Renamed(k) =>
            LET e == repair_in.subjects.items[k]
                i == IndexOf(k)
                out == AfterRepair(k).subject_name
                literal == Dict(PyStr(<<"S", "u", "b", "j", "e", "c", "t", "_">> \o Digits(i + 1)), PyFloat(30))
            IN  /\ out # literal => out.confidence = PyFloat(60)
                /\ out = literal <=> ~Nameable(e, i)
                /\ (i = 0 /\ MarksOf(e) = 100) =>
                       out = Dict(PyStr(HundredMarkNames[1]), PyFloat(60))

-----------------------------------------------------------------------------
(* Claims about subject-name normalization *)

\* the abbreviations and what they stand for
AbbreviationTable ==
    { <<<<"M", "A", "T", "H">>, <<"M", "A", "T", "H", "E", "M", "A", "T", "I", "C", "S">>>>,
      <<<<"E", "N", "G">>, <<"E", "N", "G", "L", "I", "S", "H">>>>,
      <<<<"S", "C", "I">>, <<"S", "C", "I", "E", "N", "C", "E">>>>,
      <<<<"S", "O", "C">>, <<"S", "O", "C", "I", "A", "L", "_", "S", "C", "I", "E", "N", "C", "E">>>>,
      <<<<"P", "H", "Y", "S">>, <<"P", "H", "Y", "S", "I", "C", "S">>>>,
      <<<<"C", "H", "E", "M">>, <<"C", "H", "E", "M", "I", "S", "T", "R", "Y">>>>,
      <<<<"B", "I", "O">>, <<"B", "I", "O", "L", "O", "G", "Y">>>>,
      <<<<"H", "I", "S", "T">>, <<"H", "I", "S", "T", "O", "R", "Y">>>>,
      <<<<"G", "E", "O">>, <<"G", "E", "O", "G", "R", "A", "P", "H", "Y">>>>,
      <<<<"F", "L">>, <<"F", "I", "R", "S", "T", "_", "L", "A", "N", "G", "U", "A", "G", "E">>>>,
      <<<<"S", "L">>, <<"S", "E", "C", "O", "N", "D", "_", "L", "A", "N", "G", "U", "A", "G", "E">>>> }

\* the name without the blanks around it, each run of blanks become one
Tidy(name) == CollapseSpaces(Strip(name))

Abbreviating(name) ==
    { a \in AbbreviationTable : StartsWith(Upper(Tidy(name)), a[1]) }

\* C24: normalization trims the name and collapses each run of whitespace to
\* one space; if the uppercased name starts with an abbreviation of the table,
\* exactly that leading prefix is replaced by its expansion and the rest of
\* the name is kept; a name that starts with no abbreviation keeps its text.
C24_PrefixExpanded ==
    cleaned_once # NotCleaned =>
        IF Abbreviating(name_in) = {}
        THEN cleaned_once = Tidy(name_in)
        ELSE \E a \in Abbreviating(name_in) :
                cleaned_once =
                    a[2] \o SubSeq(Tidy(name_in), Len(a[1]) + 1, Len(Tidy(name_in)))

\* the names that already begin with a full expansion of the table
AlreadyExpanded(name) ==
    \E a \in AbbreviationTable : StartsWith(Tidy(name), a[2])

\* C29: normalization is idempotent and leaves already expanded names intact:
\* applied to its own output, or to a name that already begins with a full
\* expansion of the table, it returns the same string.
C29_CleanIdempotent ==
    /\ cleaned_twice # NotCleaned => cleaned_twice = cleaned_once
    /\ (cleaned_once # NotCleaned /\ AlreadyExpanded(name_in)) =>
           cleaned_once = Tidy(name_in)

-----------------------------------------------------------------------------
(* Claims about field coercion *)

\* the string form of a scalar, trimmed
TrimmedText(v) == Strip(IF v.t = "str" THEN v.s ELSE Digits(v.n))

IsSentinelText(text) == Lower(text) \in {<<"n", "/", "a">>, <<"n", "u", "l", "l">>, <<"n", "o", "n", "e">>, <<>>}

IsScalar(v) == v.t \in {"str", "int", "float"}

\* a confidence clamped to [0,1], in hundredths
Clamped(c, out) ==
    IF c.t \in {"int", "float"}
    THEN LET x == IF c.t = "int" THEN 100 * c.n ELSE c.n
         IN  out = IF x < 0 THEN 0 ELSE IF x > 100 THEN 100 ELSE x
    ELSE out >= 0 /\ out <= 100

\* C25: _create_extracted_field maps absence to (null, 0.0); promotes every
\* bare scalar, whatever its value, to its trimmed string form with confidence
\* 0.8; normalises every value that is n/a, null, none or the empty string in
\* any letter case, bare or inside a mapping, to null with confidence 0.0; and
\* otherwise keeps the value of a mapping stringified and trimmed, with its
\* confidence clamped to [0,1].
C25_FieldCoercion ==
    field # NoField =>
        LET v == IF field_data.t = "dict" THEN field_data.value
                 ELSE [t |-> field_data.t, s |-> field_data.s, n |-> field_data.n]
        IN  CASE field_data.t = "none" ->
                    field = [kind |-> "field", value |-> PyNone, confidence |-> 0]
              [] IsScalar(v) /\ IsSentinelText(TrimmedText(v)) ->
                    field = [kind |-> "field", value |-> PyNone, confidence |-> 0]
              [] IsScalar(v) /\ field_data.t # "dict" ->
                    field = [kind |-> "field", value |-> PyStr(TrimmedText(v)),
                             confidence |-> 80]
              [] IsScalar(v) /\ field_data.t = "dict" ->
                    /\ field.kind = "field"
                    /\ field.value = PyStr(TrimmedText(v))
                    /\ Clamped(field_data.confidence, field.confidence)
              [] OTHER -> TRUE

\* what the claim gives a field of a category with the given factor (in
\* hundredths)
CalibratedAs(fld, factor) ==
    IF fld.value = PyNone THEN fld.confidence
    ELSE LET capped == Min(One, (fld.confidence * factor) \div 100)
         IN  IF capped < min_threshold THEN min_threshold ELSE capped

SectionCalibratedAs(before, after, factor) ==
    \A f \in DOMAIN before :
        /\ after[f].value = before[f].value
        /\ after[f].confidence = CalibratedAs(before[f], factor)

\* C26: calibrate_confidence multiplies the confidence of each field with a
\* non-null value by the factor of its category (1.0 candidate details, 0.95
\* subject marks, 1.05 overall result, 0.9 document info), caps it at 1.0 and
\* raises it to exactly min_threshold when it is below; a field with a null
\* value is left as it was; the floor never lowers a confidence.
C26_CalibrationByCategory ==
    ppc \in {"consistency", "returned"} =>
        /\ SectionCalibratedAs(structured.candidate_details,
                               calibrated.candidate_details, 100)
        /\ Len(calibrated.subjects) = Len(structured.subjects)
        /\ \A i \in 1..Len(structured.subjects) :
               SectionCalibratedAs(structured.subjects[i], calibrated.subjects[i], 95)
        /\ SectionCalibratedAs(structured.overall_result,
                               calibrated.overall_result, 105)
        /\ SectionCalibratedAs(structured.document_info,
                               calibrated.document_info, 90)

StatedTotal(data) == data.overall_result["total_marks"].value

TotalParses(data) == StatedTotal(data).t = "str" /\ IsNumeral(StatedTotal(data).s)

\* the relative difference between the sum of the parseable obtained marks
\* and a positive stated total is under 5%
Consistent(data) ==
    /\ TotalParses(data)
    /\ NumeralValue(StatedTotal(data).s) > 0
    /\ 20 * Abs(TotalObtained(data.subjects) - NumeralValue(StatedTotal(data).s))
           < NumeralValue(StatedTotal(data).s)

TimesCapped(c, factor) == Min(One, (c * factor) \div 100)

\* after differs from before in the boosted confidences only
BoostedFrom(before, after) ==
    /\ after.candidate_details = before.candidate_details
    /\ after.document_info = before.document_info
    /\ after.overall_result =
           [before.overall_result EXCEPT
              !["total_marks"].confidence = TimesCapped(@, 110)]
    /\ Len(after.subjects) = Len(before.subjects)
    /\ \A i \in 1..Len(before.subjects) :
           after.subjects[i] =
               [before.subjects[i] EXCEPT
                  !["obtained_marks"].confidence = TimesCapped(@, 105)]

NeverLowered(before, after) ==
    /\ \A f \in ResultFields :
           after.overall_result[f].confidence >= before.overall_result[f].confidence
    /\ \A i \in 1..Len(before.subjects) : \A f \in SubjectFields :
           after.subjects[i][f].confidence >= before.subjects[i][f].confidence

\* C27: the consistency check boosts total_marks by 1.1 and every subject's
\* obtained_marks by 1.05, each capped at 1.0, exactly when total_marks
\* parses as a number and the relative difference between the sum of the
\* parseable obtained marks and that total is under 5%; with an
\* inconsistent, unparseable, zero or negative total no confidence changes;
\* no confidence is ever lowered.
C27_BoostExactlyWhenConsistent ==
    ppc = "returned" =>
        /\ IF Consistent(calibrated) THEN BoostedFrom(calibrated, mdata)
                                     ELSE mdata = calibrated
        /\ NeverLowered(calibrated, mdata)

\* the stated total parses, is not zero, and the relative difference is 5%
\* or more
FarOff(data) ==
    /\ TotalParses(data)
    /\ NumeralValue(StatedTotal(data).s) # 0
    /\ 20 * Abs(TotalObtained(data.subjects) - NumeralValue(StatedTotal(data).s))
           >= Abs(NumeralValue(StatedTotal(data).s))

TotalConfidence(data) == data.overall_result["total_marks"].confidence

StructuredName(entry) == _create_extracted_field(entry.subject_name)

\* C30: after the repair and structuring every SubjectMark of the returned
\* MarksheetData has a subject_name whose value is not null, whatever name
\* the model supplied (missing, null, a sentinel in any letter case or with
\* surrounding blanks, a scalar that is no string, a valid name) and
\* whatever the other subjects of the list look like.
C30_EverySubjectNamed ==
    (repair_out.kind = "returned" /\ repair_out.data.kind = "dict"
        /\ repair_out.data.subjects.t = "list") =>
        \A k \in 1..Len(repair_out.data.subjects.items) :
            LET entry == repair_out.data.subjects.items[k]
            IN  (entry.isdict /\ StructuredName(entry).kind = "field") =>
                    StructuredName(entry).value # PyNone
====
